---- MODULE Spec2Model ----
(***************************************************************************)
(* gowinproc: the Process Manager (instance registry, port allocation,     *)
(* forceful and graceful stop, per-instance monitor, shutdown), the Hot    *)
(* Restart coordinator of the management RPC layer and the Update Manager  *)
(* pipeline with its repository-level download lock.                       *)
(*                                                                         *)
(* Every goroutine is a thread of th.  A thread runs an outer procedure    *)
(* (pc) and at most one Process Manager call at a time (call, cpc): the    *)
(* steps of a call are cut where the Go code releases one lock and takes   *)
(* another, so that every interleaving the locks allow is a behaviour.     *)
(***************************************************************************)
EXTENDS Integers, Sequences, FiniteSets, TLC

\* ------------------------------------------------------------------ bounds
\* instance ids the model may hand out (uuid.New() is unbounded)
MaxIds == 3
\* management calls the clients may issue in one behaviour
MaxOps == 2
\* spontaneous child exits the environment may produce in one behaviour
MaxCrashes == 1
\* releases that may be set as the current version of a name
MaxTags == 12
\* statuses broadcast for one update: more than a watcher's channel holds
MaxFrames == 12
\* supervisors that boot on the machine, each with its own pid
MaxSupervisors == 3

\* selections on a route, as many as two rounds over two backends
MaxSelections == 4

\* ------------------------------------------------------- program constants
\* NewManager: nextPort: 5001
BasePort == 5001
\* StartProcess: findAvailablePort(startPort, 10)
ProbeAttempts == 10
\* RestartProcess: maxRetries := 10
MaxRetries == 10
\* SetCurrentVersion: the history keeps the 10 newest versions
HistoryLimit == 10
WatchBuffer == 10

Names == {"A", "B"}
\* the repositories the managed names may reference
Repos == {"owner/R", "owner/S"}

\* threads: two client slots run management calls and update pipelines, the
\* coordinator runs Shutdown; thread i >= 1 is the monitor goroutine of
\* instance i
ClientSlots == {-1, -2}
Coord == 0
Slots == ClientSlots \cup {Coord}
Ids == 1..MaxIds
MonOf(i) == i
Threads == Slots \cup Ids

VARIABLES
    cfg,        \* Manager.processes[n].Config: [max, auto, env, repo]
    instances,  \* ManagedProcess.Instances: the ordered list of instance ids
    inst,       \* ProcessInstance fields: [name, port, status]
    child,      \* the OS process of an instance: none | alive | exit0 | exitErr
    termReq,    \* children that received the graceful termination signal
    nextId,     \* the next fresh instance id
    nextPort,   \* Manager.nextPort
    extPorts,   \* ports bound by processes outside the supervisor
    cancelled,  \* Manager.ctx is done
    th,         \* the goroutines
    ops,        \* management calls issued so far
    crashes,    \* spontaneous child exits so far
    um          \* update Manager, Version Manager and the binaries directory:
                \* [updates, repoLocks, files, current, history, downloads]

vars == <<um, cfg, instances, inst, child, termReq, nextId, nextPort, extPorts,
          cancelled, th, ops, crashes>>

\* ----------------------------------------------------------------- helpers
SeqToSet(s) == {s[k] : k \in 1..Len(s)}

RECURSIVE RemoveId(_, _)
\* ManagedProcess.RemoveInstance: drop the first entry with this id
RemoveId(s, i) ==
    IF s = <<>> THEN <<>>
    ELSE IF Head(s) = i THEN Tail(s)
    ELSE <<Head(s)>> \o RemoveId(Tail(s), i)

\* ManagedProcess.GetRunningInstances
GetRunningInstances(n) == {i \in SeqToSet(instances[n]) : inst[i].status = "running"}

SetMin(S) == CHOOSE x \in S : \A y \in S : x <= y

NoInst == [name |-> "-", port |-> 0, status |-> "none", bin |-> "-"]

IdleThread ==
    [kind |-> "none", pc |-> "idle", name |-> "-",
     call |-> "none", cpc |-> "-", arg |-> 0, startPort |-> 0, port |-> 0,
     ret |-> "none", rid |-> 0,
     O |-> <<>>, N |-> <<>>, i |-> 0, retry |-> 0, req |-> 0,
     tag |-> "-", force |-> FALSE]

\* a monitor goroutine that has returned
DoneMonitor == [IdleThread EXCEPT !.kind = "mon", !.pc = "done"]

\* a thread enters a Process Manager call
Enter(r, c, first, n, a) ==
    [r EXCEPT !.call = c, !.cpc = first, !.name = n, !.arg = a,
              !.ret = "none", !.rid = 0, !.startPort = 0, !.port = 0]

\* a Process Manager call returns to its caller
Leave(r, result, id) ==
    [r EXCEPT !.call = "none", !.cpc = "-", !.ret = result, !.rid = id,
              !.arg = 0, !.startPort = 0, !.port = 0]

\* listeners a concurrent findAvailablePort holds between Listen and Close
ProbeHeld == {th[t].port : t \in {u \in Threads : th[u].cpc = "sp_close"}}

\* ports handed to children that are alive: a child binds GRPC_PORT some time
\* after it was spawned, so a probe may find such a port busy or still free
ChildPorts == {inst[i].port : i \in {j \in Ids : child[j] = "alive"}}


\* -------------------------------------------------- Manager.StartProcess
\* lines 178-190: the name lookup and the max_instances check
SP_Check(t) ==
    /\ th[t].call = "start" /\ th[t].cpc = "sp_check"
    /\ LET n == th[t].name IN
       IF n \notin DOMAIN cfg
       THEN th' = [th EXCEPT ![t] = Leave(@, "not_found", 0)]
       ELSE IF Cardinality(GetRunningInstances(n)) >= cfg[n].max
       THEN th' = [th EXCEPT ![t] = Leave(@, "max_instances", 0)]
       ELSE th' = [th EXCEPT ![t].cpc = "sp_cursor"]
    /\ UNCHANGED <<um, cfg, instances, inst, child, termReq, nextId, nextPort,
                   extPorts, cancelled, ops, crashes>>

\* a start that moves the cursor when it reads it
SP_ReadCursorAdvances(t) ==
    /\ th[t].call = "start" /\ th[t].cpc = "sp_cursor"
    /\ th' = [th EXCEPT ![t].startPort = nextPort, ![t].cpc = "sp_probe"]
    /\ nextPort' = nextPort + 1
    /\ UNCHANGED <<um, cfg, instances, inst, child, termReq, nextId,
                   extPorts, cancelled, ops, crashes>>

\* lines 193-195: startPort := m.nextPort under m.mu
SP_ReadCursor(t) ==
    /\ th[t].call = "start" /\ th[t].cpc = "sp_cursor"
    /\ th' = [th EXCEPT ![t].startPort = nextPort, ![t].cpc = "sp_probe"]
    /\ UNCHANGED <<um, cfg, instances, inst, child, termReq, nextId, nextPort,
                   extPorts, cancelled, ops, crashes>>

\* findAvailablePort: the first port of startPort .. startPort+maxAttempts-1
\* on which net.Listen succeeds, given the ports that are busy
findAvailablePort(startPort, busy) ==
    LET free == {p \in startPort..(startPort + ProbeAttempts - 1) : p \notin busy}
    IN IF free = {} THEN 0 ELSE SetMin(free)

\* line 197: the probe; the listener of the adopted port is open until SP_Close
SP_Probe(t) ==
    /\ th[t].call = "start" /\ th[t].cpc = "sp_probe"
    /\ \E bound \in SUBSET ChildPorts :
         LET p == findAvailablePort(th[t].startPort,
                                    extPorts \cup ProbeHeld \cup bound) IN
         IF p = 0
         THEN th' = [th EXCEPT ![t] = Leave(@, "port_exhausted", 0)]
         ELSE th' = [th EXCEPT ![t].port = p, ![t].cpc = "sp_close"]
    /\ UNCHANGED <<um, cfg, instances, inst, child, termReq, nextId, nextPort,
                   extPorts, cancelled, ops, crashes>>

\* a cursor that stays on the adopted port
CursorAfterSamePort(p) == p

\* the cursor StartProcess stores after adopting port p
CursorAfter(p) == p + 1

\* lines 677 and 203-205: listener.Close(), then m.nextPort = availablePort + 1
SP_Close(t) ==
    /\ th[t].call = "start" /\ th[t].cpc = "sp_close"
    /\ nextPort' = CursorAfter(th[t].port)
    /\ th' = [th EXCEPT ![t].cpc = "sp_spawn"]
    /\ UNCHANGED <<um, cfg, instances, inst, child, termReq, nextId, extPorts,
                   cancelled, ops, crashes>>

\* a history that dropped its newest entries instead of its oldest
TruncateKeepsOldest(h) ==
    IF Len(h) > HistoryLimit THEN SubSeq(h, Len(h) - HistoryLimit + 1, Len(h))
    ELSE h

\* SetCurrentVersion 110-112: only the first 10 entries are kept
Truncate(h) == IF Len(h) > HistoryLimit THEN SubSeq(h, 1, HistoryLimit) ELSE h

\* SetCurrentVersion 97-113 on the VersionInfo of n: the version becomes
\* current, and is put in front of the history when its tag is not in it
SetCurrentVersion(u, n, v) ==
    LET h == IF v \in SeqToSet(u.history[n]) THEN u.history[n]
             ELSE Truncate(<<v>> \o u.history[n])
    IN [u EXCEPT !.current[n] = <<v>>,
                 !.history[n] = h,
                 !.saved[n] = [current |-> <<v>>, history |-> h]]

\* detectLatestBinary compares the version strings of the file names; of the
\* two releases v2 is the greater
TagRank(g) == IF g = "v1" THEN 1 ELSE 2

\* detectLatestBinary 617-661: the greatest version with a file in the
\* binaries directory of the repository, "" when there is none
detectLatestBinary(n) ==
    LET have == {g \in DOMAIN um.files[cfg[n].repo] :
                    um.files[cfg[n].repo][g] # "absent"}
    IN IF have = {} THEN ""
       ELSE CHOOSE g \in have : \A h \in have : TagRank(h) <= TagRank(g)

\* cmd.Start 275: exec.CommandContext(m.ctx, ...) refuses to start once m.ctx
\* is done; a binary whose download broke off starts or fails to start
SpawnOutcomes(n, g) ==
    IF cancelled THEN {"spawn_failed"}
    ELSE IF um.files[cfg[n].repo][g] = "partial" THEN {"spawn_failed", "ok"}
    ELSE {"ok"}

\* a start that takes the new id without creating the child
SP_SpawnNoChild(t) ==
    /\ th[t].call = "start" /\ th[t].cpc = "sp_spawn"
    /\ nextId <= MaxIds
    /\ inst' = [inst EXCEPT ![nextId] =
                  [name |-> th[t].name, port |-> th[t].port, status |-> "starting",
                   bin |-> detectLatestBinary(th[t].name)]]
    /\ nextId' = nextId + 1
    /\ th' = [th EXCEPT ![t].rid = nextId, ![t].cpc = "sp_add"]
    /\ UNCHANGED <<um, cfg, instances, child, termReq, nextPort, extPorts,
                   cancelled, ops, crashes>>

\* lines 217-278: the binary is detected, its version is recorded as the
\* current one, then LoadEnvFile and cmd.Start(); each error returns before
\* the instance is added
SP_Spawn(t) ==
    /\ th[t].call = "start" /\ th[t].cpc = "sp_spawn"
    /\ LET n == th[t].name
           g == detectLatestBinary(n) IN
       IF g = ""
       THEN /\ th' = [th EXCEPT ![t] = Leave(@, "no_binary", 0)]
            /\ UNCHANGED <<um, inst, child, nextId>>
       ELSE /\ um' = SetCurrentVersion(um, n, g)
            /\ IF ~cfg[n].env
               THEN /\ th' = [th EXCEPT ![t] = Leave(@, "env_missing", 0)]
                    /\ UNCHANGED <<inst, child, nextId>>
               ELSE \E out \in SpawnOutcomes(n, g) :
                      IF out # "ok"
                      THEN /\ th' = [th EXCEPT ![t] = Leave(@, out, 0)]
                           /\ UNCHANGED <<inst, child, nextId>>
                      ELSE /\ nextId <= MaxIds
                           /\ child' = [child EXCEPT ![nextId] = "alive"]
                           /\ inst' = [inst EXCEPT ![nextId] =
                                         [name |-> n, port |-> th[t].port,
                                          status |-> "starting", bin |-> g]]
                           /\ nextId' = nextId + 1
                           /\ th' = [th EXCEPT ![t].rid = nextId,
                                               ![t].cpc = "sp_add"]
    /\ UNCHANGED <<cfg, instances, termReq, nextPort, extPorts, cancelled,
                   ops, crashes>>

\* lines 280-291: SetStatus(running), AddInstance, go monitorProcess
SP_Add(t) ==
    /\ th[t].call = "start" /\ th[t].cpc = "sp_add"
    /\ LET i == th[t].rid IN
       /\ inst' = [inst EXCEPT ![i].status = "running"]
       /\ instances' = [instances EXCEPT ![th[t].name] = Append(@, i)]
       /\ th' = [th EXCEPT ![t] = Leave(@, "ok", i),
                           ![MonOf(i)] = [IdleThread EXCEPT !.kind = "mon",
                                             !.pc = "m_wait", !.name = th[t].name,
                                             !.req = i]]
    /\ UNCHANGED <<um, cfg, child, termReq, nextId, nextPort, extPorts, cancelled,
                   ops, crashes>>

StartProcess(t) ==
    \/ SP_Check(t) \/ SP_ReadCursor(t) \/ SP_Probe(t)
    \/ SP_Close(t) \/ SP_Spawn(t) \/ SP_Add(t)

\* --------------------------------------------------- Manager.StopProcess
\* os.Process.Kill on a child: it succeeds on a live child; on a child that
\* has exited it fails once the exit was collected by the monitor's Wait
\* (ErrProcessDone) and before that it fails or succeeds with the platform
KillOutcomes(i) ==
    IF child[i] = "alive" THEN {"ok"}
    ELSE IF th[MonOf(i)].pc = "m_wait" THEN {"ok", "kill_failed"}
    ELSE {"kill_failed"}

\* lines 296-318: find the instance in GetInstances(), SetStatus(stopping)
K_Find(t) ==
    /\ th[t].call = "stop" /\ th[t].cpc = "k_find"
    /\ LET i == th[t].arg IN
       IF i \notin SeqToSet(instances[th[t].name])
       THEN /\ th' = [th EXCEPT ![t] = Leave(@, "not_found", 0)]
            /\ UNCHANGED inst
       ELSE /\ inst' = [inst EXCEPT ![i].status = "stopping"]
            /\ th' = [th EXCEPT ![t].cpc = "k_kill"]
    /\ UNCHANGED <<um, cfg, instances, child, termReq, nextId, nextPort, extPorts,
                   cancelled, ops, crashes>>

\* lines 321-325 (and forceKillProcess 447-451): Process.Kill(); an error
\* returns at once and leaves the instance listed
K_Kill(t) ==
    /\ th[t].call \in {"stop", "gstop"} /\ th[t].cpc = "k_kill"
    /\ LET i == th[t].arg IN
       \E out \in KillOutcomes(i) :
         IF out = "ok"
         THEN /\ child' = [child EXCEPT ![i] = IF @ = "alive" THEN "killed" ELSE @]
              /\ th' = [th EXCEPT ![t].cpc = "k_done"]
         ELSE /\ th' = [th EXCEPT ![t] = Leave(@, "kill_failed", 0)]
              /\ UNCHANGED child
    /\ UNCHANGED <<um, cfg, instances, inst, termReq, nextId, nextPort, extPorts,
                   cancelled, ops, crashes>>

\* the status a completed stop leaves on the instance
StoppedStatus == "stopped"

\* lines 328-335 (and 454-460): Wait(), SetStatus(stopped), RemoveInstance
K_Done(t) ==
    /\ th[t].call \in {"stop", "gstop"} /\ th[t].cpc = "k_done"
    /\ LET i == th[t].arg IN
       /\ child[i] # "alive"
       /\ inst' = [inst EXCEPT ![i].status = StoppedStatus]
       /\ instances' = [instances EXCEPT ![th[t].name] = RemoveId(@, i)]
       /\ th' = [th EXCEPT ![t] = Leave(@, "ok", 0)]
    /\ UNCHANGED <<um, cfg, child, termReq, nextId, nextPort, extPorts, cancelled,
                   ops, crashes>>

\* the kill and the removal, shared by StopProcess and forceKillProcess
forceKillProcess(t) == K_Kill(t) \/ K_Done(t)

StopProcess(t) == K_Find(t) \/ forceKillProcess(t)

\* ----------------------------------------- Manager.StopProcessGracefully
\* lines 341-372: find the instance, SetStatus(stopping)
G_Find(t) ==
    /\ th[t].call = "gstop" /\ th[t].cpc = "g_find"
    /\ LET i == th[t].arg IN
       IF i \notin SeqToSet(instances[th[t].name])
       THEN /\ th' = [th EXCEPT ![t] = Leave(@, "not_found", 0)]
            /\ UNCHANGED inst
       ELSE /\ inst' = [inst EXCEPT ![i].status = "stopping"]
            /\ th' = [th EXCEPT ![t].cpc = "g_signal"]
    /\ UNCHANGED <<um, cfg, instances, child, termReq, nextId, nextPort, extPorts,
                   cancelled, ops, crashes>>

\* lines 376-379, sendTermSignal: POST /shutdown, else taskkill without /F;
\* when both fail the stop goes to forceKillProcess
G_Signal(t) ==
    /\ th[t].call = "gstop" /\ th[t].cpc = "g_signal"
    /\ \/ /\ termReq' = termReq \cup {th[t].arg}
          /\ th' = [th EXCEPT ![t].cpc = "g_wait"]
       \/ /\ th' = [th EXCEPT ![t].cpc = "k_kill"]
          /\ UNCHANGED termReq
    /\ UNCHANGED <<um, cfg, instances, inst, child, nextId, nextPort, extPorts,
                   cancelled, ops, crashes>>

\* lines 391-407: the select; the child exited (stopped, removed) or the
\* timeout fired (forceKillProcess)
G_Wait(t) ==
    /\ th[t].call = "gstop" /\ th[t].cpc = "g_wait"
    /\ LET i == th[t].arg IN
       \/ /\ child[i] # "alive"
          /\ inst' = [inst EXCEPT ![i].status = StoppedStatus]
          /\ instances' = [instances EXCEPT ![th[t].name] = RemoveId(@, i)]
          /\ th' = [th EXCEPT ![t] = Leave(@, "ok", 0)]
       \/ /\ th' = [th EXCEPT ![t].cpc = "k_kill"]
          /\ UNCHANGED <<inst, instances>>
    /\ UNCHANGED <<um, cfg, child, termReq, nextId, nextPort, extPorts, cancelled,
                   ops, crashes>>

StopProcessGracefully(t) == G_Find(t) \/ G_Signal(t) \/ G_Wait(t)

\* ------------------------------------------------ Manager.monitorProcess
\* a child that has exited: with code zero, with another code, or killed
Exited == {"exit0", "exitErr", "killed"}

\* the status the monitor sets when Wait() returns
ExitStatus(c) == IF c = "exit0" THEN "stopped" ELSE "failed"

\* lines 557-580: Wait() returns; err # nil sets failed, nil sets stopped
M_Wait(i) ==
    /\ th[MonOf(i)].kind = "mon" /\ th[MonOf(i)].pc = "m_wait"
    /\ child[i] \in Exited
    /\ inst' = [inst EXCEPT ![i].status = ExitStatus(child[i])]
    /\ th' = [th EXCEPT ![MonOf(i)].pc = "m_remove"]
    /\ UNCHANGED <<um, cfg, instances, child, termReq, nextId, nextPort, extPorts,
                   cancelled, ops, crashes>>

\* a monitor that goes on to the restart decision without the removal
M_RemoveKeeps(i) ==
    /\ th[MonOf(i)].kind = "mon" /\ th[MonOf(i)].pc = "m_remove"
    /\ th' = [th EXCEPT ![MonOf(i)].pc = "m_check"]
    /\ UNCHANGED <<um, cfg, instances, inst, child, termReq, nextId, nextPort,
                   extPorts, cancelled, ops, crashes>>

\* line 588: managedProc.RemoveInstance(instance.ID)
M_Remove(i) ==
    /\ th[MonOf(i)].kind = "mon" /\ th[MonOf(i)].pc = "m_remove"
    /\ instances' = [instances EXCEPT ![inst[i].name] = RemoveId(@, i)]
    /\ th' = [th EXCEPT ![MonOf(i)].pc = "m_check"]
    /\ UNCHANGED <<um, cfg, inst, child, termReq, nextId, nextPort, extPorts,
                   cancelled, ops, crashes>>

\* line 591: the auto-restart condition, read after the removal
ShouldRestart(i) == cfg[inst[i].name].auto /\ inst[i].status = "failed"

\* lines 591-596: the condition, the 5 s sleep and the call of StartProcess
M_Check(i) ==
    /\ th[MonOf(i)].kind = "mon" /\ th[MonOf(i)].pc = "m_check"
    /\ IF ShouldRestart(i)
       THEN th' = [th EXCEPT ![MonOf(i)] =
                      Enter([@ EXCEPT !.pc = "m_restart"], "start", "sp_check",
                            inst[i].name, 0)]
       ELSE th' = [th EXCEPT ![MonOf(i)] = DoneMonitor]
    /\ UNCHANGED <<um, cfg, instances, inst, child, termReq, nextId, nextPort,
                   extPorts, cancelled, ops, crashes>>

\* lines 596-598: StartProcess returned; an error is logged and dropped
M_Restarted(i) ==
    /\ th[MonOf(i)].kind = "mon" /\ th[MonOf(i)].pc = "m_restart"
    /\ th[MonOf(i)].call = "none"
    /\ th' = [th EXCEPT ![MonOf(i)] = DoneMonitor]
    /\ UNCHANGED <<um, cfg, instances, inst, child, termReq, nextId, nextPort,
                   extPorts, cancelled, ops, crashes>>

monitorProcess(i) == M_Wait(i) \/ M_Remove(i) \/ M_Check(i) \/ M_Restarted(i)

\* ------------------------------------------------------- the environment
\* a child exits on its own, with exit code zero or not
ChildCrash(i) ==
    /\ child[i] = "alive"
    /\ crashes < MaxCrashes
    /\ \E c \in {"exit0", "exitErr"} : child' = [child EXCEPT ![i] = c]
    /\ crashes' = crashes + 1
    /\ UNCHANGED <<um, cfg, instances, inst, termReq, nextId, nextPort, extPorts,
                   cancelled, th, ops>>

\* a child that received the termination signal shuts down and exits zero
ChildObey(i) ==
    /\ child[i] = "alive" /\ i \in termReq
    /\ child' = [child EXCEPT ![i] = "exit0"]
    /\ UNCHANGED <<um, cfg, instances, inst, termReq, nextId, nextPort, extPorts,
                   cancelled, th, ops, crashes>>

\* exec.CommandContext: once m.ctx is done the command's watcher goroutine
\* kills the child
CtxKill(i) ==
    /\ cancelled /\ child[i] = "alive"
    /\ child' = [child EXCEPT ![i] = "killed"]
    /\ UNCHANGED <<um, cfg, instances, inst, termReq, nextId, nextPort, extPorts,
                   cancelled, th, ops, crashes>>

\* ------------------------------------------------- the management calls
\* main.go stops the gRPC and HTTP servers before Manager.Shutdown runs
ShutdownBegun == th[Coord].kind = "shut" /\ th[Coord].pc # "idle"

\* POST /api/v1/processes/{name}/start, gRPC StartProcess
ApiStart(t, n) ==
    /\ th[t].kind = "api" /\ th[t].pc = "idle"
    /\ ops < MaxOps /\ ~ShutdownBegun
    /\ th' = [th EXCEPT ![t] = Enter([@ EXCEPT !.pc = "api_call"], "start",
                                      "sp_check", n, 0)]
    /\ ops' = ops + 1
    /\ UNCHANGED <<um, cfg, instances, inst, child, termReq, nextId, nextPort,
                   extPorts, cancelled, crashes>>

\* POST /api/v1/processes/{name}/stop with an instance id, gRPC StopProcess
ApiStop(t, n, i) ==
    /\ th[t].kind = "api" /\ th[t].pc = "idle"
    /\ ops < MaxOps /\ ~ShutdownBegun
    /\ i \in SeqToSet(instances[n])
    /\ th' = [th EXCEPT ![t] = Enter([@ EXCEPT !.pc = "api_call"], "stop",
                                      "k_find", n, i)]
    /\ ops' = ops + 1
    /\ UNCHANGED <<um, cfg, instances, inst, child, termReq, nextId, nextPort,
                   extPorts, cancelled, crashes>>

\* the handler answers the client
ApiReturn(t) ==
    /\ th[t].kind = "api" /\ th[t].pc = "api_call" /\ th[t].call = "none"
    /\ th' = [th EXCEPT ![t] = [IdleThread EXCEPT !.kind = "api"]]
    /\ UNCHANGED <<um, cfg, instances, inst, child, termReq, nextId, nextPort,
                   extPorts, cancelled, ops, crashes>>

\* a client that calls StartProcess and, with the instance id it was
\* answered, StopProcess: the snapshot O is the list before the start
RT_Start(t, n) ==
    /\ th[t].kind = "rt" /\ th[t].pc = "idle"
    /\ ops < MaxOps
    /\ th' = [th EXCEPT ![t] = Enter([@ EXCEPT !.pc = "rt_started",
                                                !.O = instances[n]],
                                      "start", "sp_check", n, 0)]
    /\ ops' = ops + 1
    /\ UNCHANGED <<um, cfg, instances, inst, child, termReq, nextId, nextPort,
                   extPorts, cancelled, crashes>>

RT_Stop(t) ==
    /\ th[t].kind = "rt" /\ th[t].pc = "rt_started" /\ th[t].call = "none"
    /\ IF th[t].ret = "ok"
       THEN th' = [th EXCEPT ![t] = Enter([@ EXCEPT !.pc = "rt_stopped",
                                                    !.N = <<th[t].rid>>],
                                          "stop", "k_find", th[t].name, th[t].rid)]
       ELSE th' = [th EXCEPT ![t].pc = "rt_failed"]
    /\ UNCHANGED <<um, cfg, instances, inst, child, termReq, nextId, nextPort,
                   extPorts, cancelled, ops, crashes>>

\* ------------------------------------------------------ Manager.Shutdown
\* lines 527-534: m.cancel() and the snapshot of the names (a map: any order)
SH_Cancel ==
    /\ th[Coord].kind = "shut" /\ th[Coord].pc = "idle"
    /\ \A t \in ClientSlots : th[t].kind = "api" => th[t].pc = "idle"
    /\ cancelled' = TRUE
    /\ \E a \in Names, b \in Names :
         /\ a # b
         /\ th' = [th EXCEPT ![Coord].pc = "sh_names", ![Coord].N = <<a, b>>]
    /\ UNCHANGED <<um, cfg, instances, inst, child, termReq, nextId, nextPort,
                   extPorts, ops, crashes>>

\* lines 537-541 and StopAllInstances 465-473: the next name and the
\* snapshot of its instances
SH_Name ==
    /\ th[Coord].kind = "shut" /\ th[Coord].pc = "sh_names"
    /\ IF th[Coord].N = <<>>
       THEN th' = [th EXCEPT ![Coord].pc = "sh_done"]
       ELSE th' = [th EXCEPT ![Coord].pc = "sh_stop",
                             ![Coord].name = Head(th[Coord].N),
                             ![Coord].N = Tail(th[Coord].N),
                             ![Coord].O = instances[Head(th[Coord].N)]]
    /\ UNCHANGED <<um, cfg, instances, inst, child, termReq, nextId, nextPort,
                   extPorts, cancelled, ops, crashes>>

\* StopAllInstances 476-480: StopProcess on each instance of the snapshot,
\* errors collected
SH_Stop ==
    /\ th[Coord].kind = "shut" /\ th[Coord].pc = "sh_stop"
    /\ th[Coord].call = "none"
    /\ IF th[Coord].O = <<>>
       THEN th' = [th EXCEPT ![Coord].pc = "sh_names"]
       ELSE th' = [th EXCEPT ![Coord] =
                      Enter([@ EXCEPT !.O = Tail(th[Coord].O)], "stop", "k_find",
                            th[Coord].name, Head(th[Coord].O))]
    /\ UNCHANGED <<um, cfg, instances, inst, child, termReq, nextId, nextPort,
                   extPorts, cancelled, ops, crashes>>

Shutdown == SH_Cancel \/ SH_Name \/ SH_Stop

\* Manager.Shutdown has returned
ShutdownReturned == th[Coord].kind = "shut" /\ th[Coord].pc = "sh_done"

\* ------------------------------------------------- Server.RestartProcess
\* server.go 187-191: the number of instances to start
NumInstances(O, req) == IF req # 0 THEN 1 ELSE Len(O)

\* server.go 172-191: the snapshot of the old instances; req is the
\* instance_id of the request, 0 when it is empty
R_Begin(t, n, req) ==
    /\ th[t].kind = "hr" /\ th[t].pc = "idle"
    /\ ops < MaxOps
    /\ IF instances[n] = <<>>
       THEN th' = [th EXCEPT ![t] = [@ EXCEPT !.pc = "hr_failed", !.name = n,
                                               !.req = req, !.ret = "no_instances"]]
       ELSE th' = [th EXCEPT ![t] = [@ EXCEPT !.pc = "hr_provision", !.name = n,
                                               !.req = req, !.O = instances[n]]]
    /\ ops' = ops + 1
    /\ UNCHANGED <<um, cfg, instances, inst, child, termReq, nextId, nextPort,
                   extPorts, cancelled, crashes>>

\* a provisioning loop that runs once more than numInstances
ProvisionMoreOffByOne(r) == Len(r.N) <= NumInstances(r.O, r.req)

\* server.go 194: the provisioning loop goes on while i < numInstances
ProvisionMore(r) == Len(r.N) < NumInstances(r.O, r.req)

\* server.go 194-195: the next StartProcess of the provisioning loop
R_Provision(t) ==
    /\ th[t].kind = "hr" /\ th[t].pc = "hr_provision"
    /\ IF ProvisionMore(th[t])
       THEN th' = [th EXCEPT ![t] = Enter([@ EXCEPT !.pc = "hr_started"], "start",
                                          "sp_check", th[t].name, 0)]
       ELSE th' = [th EXCEPT ![t].pc = "hr_gate", ![t].retry = 0,
                             ![t].ret = "none", ![t].rid = 0]
    /\ UNCHANGED <<um, cfg, instances, inst, child, termReq, nextId, nextPort,
                   extPorts, cancelled, ops, crashes>>

\* server.go 196-204: a failed start rolls the new instances back, a
\* successful one is recorded
R_Started(t) ==
    /\ th[t].kind = "hr" /\ th[t].pc = "hr_started" /\ th[t].call = "none"
    /\ IF th[t].ret = "ok"
       THEN th' = [th EXCEPT ![t].N = Append(@, th[t].rid),
                             ![t].pc = "hr_provision"]
       ELSE th' = [th EXCEPT ![t].pc = "hr_rollback", ![t].i = 0,
                             ![t].retry = 0]
    /\ UNCHANGED <<um, cfg, instances, inst, child, termReq, nextId, nextPort,
                   extPorts, cancelled, ops, crashes>>

\* server.go 198-201 and 274-277: StopProcess on every new instance, then
\* the request fails
R_Rollback(t) ==
    /\ th[t].kind = "hr" /\ th[t].pc = "hr_rollback" /\ th[t].call = "none"
    /\ IF th[t].i < Len(th[t].N)
       THEN th' = [th EXCEPT ![t] =
                      Enter([@ EXCEPT !.i = th[t].i + 1], "stop", "k_find",
                            th[t].name, th[t].N[th[t].i + 1])]
       ELSE th' = [th EXCEPT ![t].pc = "hr_failed", ![t].i = 0,
                             ![t].rid = 0]
    /\ UNCHANGED <<um, cfg, instances, inst, child, termReq, nextId, nextPort,
                   extPorts, cancelled, ops, crashes>>

\* server.go 232-256: every new id is in the status snapshot with a pid and
\* status running
AllHealthy(n, N) ==
    \A k \in 1..Len(N) :
        N[k] \in SeqToSet(instances[n]) /\ inst[N[k]].status = "running"

\* server.go 215-279: one poll of the health gate
R_Gate(t) ==
    /\ th[t].kind = "hr" /\ th[t].pc = "hr_gate"
    /\ IF AllHealthy(th[t].name, th[t].N)
       THEN th' = [th EXCEPT ![t].pc = "hr_retire", ![t].i = 0, ![t].retry = 0]
       ELSE IF th[t].retry = MaxRetries - 1
       THEN th' = [th EXCEPT ![t].pc = "hr_rollback", ![t].i = 0,
                             ![t].ret = "unhealthy"]
       ELSE th' = [th EXCEPT ![t].retry = th[t].retry + 1]
    /\ UNCHANGED <<um, cfg, instances, inst, child, termReq, nextId, nextPort,
                   extPorts, cancelled, ops, crashes>>

\* server.go 294-305: the old instances the retire loop stops
Retires(o, req) == req = 0 \/ o = req

\* server.go 294-317: StopProcessGracefully on the next old instance
R_Retire(t) ==
    /\ th[t].kind = "hr" /\ th[t].pc = "hr_retire" /\ th[t].call = "none"
    /\ IF th[t].i < Len(th[t].O)
       THEN LET o == th[t].O[th[t].i + 1] IN
            IF Retires(o, th[t].req)
            THEN th' = [th EXCEPT ![t] =
                           Enter([@ EXCEPT !.i = th[t].i + 1], "gstop", "g_find",
                                 th[t].name, o)]
            ELSE th' = [th EXCEPT ![t].i = th[t].i + 1]
       ELSE th' = [th EXCEPT ![t].pc = "hr_done", ![t].i = 0, ![t].ret = "ok",
                             ![t].rid = 0]
    /\ UNCHANGED <<um, cfg, instances, inst, child, termReq, nextId, nextPort,
                   extPorts, cancelled, ops, crashes>>

RestartProcess(t) ==
    \/ R_Provision(t) \/ R_Started(t) \/ R_Rollback(t) \/ R_Gate(t) \/ R_Retire(t)

\* --------------------------------------------------- Server.ScaleProcess
\* server.go 416-417: the instance a shrink stops is the last of the list
StopsLast(cur) == cur[Len(cur)]

\* server.go 389-396: the snapshot whose length is currentCount; req is the
\* target count
S_Begin(t, n, target) ==
    /\ th[t].kind = "sc" /\ th[t].pc = "idle"
    /\ ops < MaxOps
    /\ th' = [th EXCEPT ![t] = [@ EXCEPT !.pc = "sc_loop", !.name = n,
                                         !.req = target, !.O = instances[n],
                                         !.i = 0, !.ret = "ok"]]
    /\ ops' = ops + 1
    /\ UNCHANGED <<um, cfg, instances, inst, child, termReq, nextId, nextPort,
                   extPorts, cancelled, crashes>>

\* server.go 398-404: the next StartProcess of a scale up; a failed start
\* ends the call with an error
S_Grow(t) ==
    /\ th[t].kind = "sc" /\ th[t].pc = "sc_loop" /\ th[t].call = "none"
    /\ th[t].req > Len(th[t].O)
    /\ th' = IF th[t].ret # "ok"
             THEN [th EXCEPT ![t].pc = "sc_failed"]
             ELSE IF th[t].i < th[t].req - Len(th[t].O)
             THEN [th EXCEPT ![t] = Enter([@ EXCEPT !.i = th[t].i + 1], "start",
                                          "sp_check", th[t].name, 0)]
             ELSE [th EXCEPT ![t].pc = "sc_done", ![t].rid = 0]
    /\ UNCHANGED <<um, cfg, instances, inst, child, termReq, nextId, nextPort,
                   extPorts, cancelled, ops, crashes>>

\* server.go 405-421: a scale down reads the list afresh in every round and
\* stops its last instance gracefully while the list is longer than the
\* target; a failed stop ends the call with an error
S_Shrink(t) ==
    /\ th[t].kind = "sc" /\ th[t].pc = "sc_loop" /\ th[t].call = "none"
    /\ th[t].req < Len(th[t].O)
    /\ LET cur == instances[th[t].name] IN
       th' = IF th[t].ret # "ok"
             THEN [th EXCEPT ![t].pc = "sc_failed"]
             ELSE IF th[t].i < Len(th[t].O) - th[t].req
             THEN IF Len(cur) > th[t].req
                  THEN [th EXCEPT ![t] = Enter([@ EXCEPT !.i = th[t].i + 1], "gstop",
                                               "g_find", th[t].name, StopsLast(cur))]
                  ELSE [th EXCEPT ![t].i = th[t].i + 1]
             ELSE [th EXCEPT ![t].pc = "sc_done", ![t].rid = 0]
    /\ UNCHANGED <<um, cfg, instances, inst, child, termReq, nextId, nextPort,
                   extPorts, cancelled, ops, crashes>>

\* server.go 398, 405, 424-425: the target equals the count and the call
\* returns the process info
S_Same(t) ==
    /\ th[t].kind = "sc" /\ th[t].pc = "sc_loop" /\ th[t].call = "none"
    /\ th[t].req = Len(th[t].O)
    /\ th' = [th EXCEPT ![t].pc = "sc_done"]
    /\ UNCHANGED <<um, cfg, instances, inst, child, termReq, nextId, nextPort,
                   extPorts, cancelled, ops, crashes>>

ScaleProcess(t) == S_Grow(t) \/ S_Shrink(t) \/ S_Same(t)

\* ------------------------------------------------------ the Process Manager
\* configurations: A varies in max_instances and auto_restart, B is a
\* single-instance process without auto_restart
\* ------------------------------------------------------ update.Manager
Tags == {"v1", "v2"}
Latest == "v2"

\* the assets of a GitHub release: an extension and a download URL
ExeAsset == [ext |-> ".exe", url |-> "exe-url"]
ZipAsset == [ext |-> ".zip", url |-> "zip-url"]

\* the pids of the supervisors; 0 stands for a lock file without a number
Pids == 1..MaxSupervisors

\* <tempdir>/gowinproc.lock: whether it exists, the pid written in it and
\* the processes holding it open
NoLock == [exists |-> FALSE, pid |-> 0, open |-> {}]

\* NewManager: no update status, no repository lock; the binaries directory
\* holds the installed release v1 and both names run it; the gRPC server of
\* NewServer has no watcher, and chans holds the channel of each stream;
\* routes are the compiled routes of the load balancer, none by default;
\* releases are the assets GitHub lists for each release, one .exe by default
NoUpdates ==
    [updates   |-> [n \in Names |-> [stage |-> "none", completed |-> TRUE]],
     progress  |-> [n \in Names |-> 0],
     saved     |-> [n \in Names |-> [current |-> <<"v1">>, history |-> <<"v1">>]],
     sent      |-> [n \in Names |-> <<>>],
     lock      |-> NoLock,
     sup       |-> [p \in Pids |-> [pc |-> "off", old |-> 0]],
     got       |-> [t \in Slots |-> <<>>],
     counters  |-> <<>>,
     ctr       |-> <<>>,
     picks     |-> <<>>,
     repoLocks |-> [r \in Repos |-> 0],
     files     |-> [r \in Repos |->
                       [g \in Tags |-> IF g = "v1" THEN "complete" ELSE "absent"]],
     current   |-> [n \in Names |-> <<"v1">>],
     history   |-> [n \in Names |-> <<"v1">>],
     downloads |-> 0,
     watchers  |-> [n \in Names |-> <<>>],
     chans     |-> [t \in Slots |-> <<>>],
     routes    |-> <<>>,
     releases  |-> [g \in Tags |-> <<ExeAsset>>]]

\* GetCurrentVersion: the current version <<v>>, or <<>> when none is set
GetCurrentVersion(n) == um.current[n]

\* a pipeline whose stopping_old stage reports less than starting_new
StageProgressDrops(stage) ==
    IF stage = "initializing" THEN 0
    ELSE IF stage = "fetching_version" THEN 10
    ELSE IF stage = "downloading" THEN 20
    ELSE IF stage = "starting_new" THEN 75
    ELSE IF stage = "stopping_old" THEN 65
    ELSE IF stage = "updating_version" THEN 95
    ELSE 100

\* UpdateProcess 395 and performUpdate 424, 466, 510, 533, 569, 456 and 576:
\* the Progress assigned together with each stage
StageProgress(stage) ==
    IF stage = "initializing" THEN 0
    ELSE IF stage = "fetching_version" THEN 10
    ELSE IF stage = "downloading" THEN 20
    ELSE IF stage = "starting_new" THEN 75
    ELSE IF stage = "stopping_old" THEN 85
    ELSE IF stage = "updating_version" THEN 95
    ELSE 100

\* setUpdateStatus after the stage and the completed flag were assigned; the
\* failure paths assign no Progress
Status(u, n, stage, completed) ==
    [u EXCEPT !.updates[n] = [stage |-> stage, completed |-> completed],
              !.progress[n] = IF stage = "failed" THEN @ ELSE StageProgress(stage)]

\* a check that looks at the presence of a status only, not at its flag
InProgressIgnoresCompleted(n) == um.updates[n].stage # "none"

\* an update of n is in progress: the map holds a status that is not completed
InProgress(n) == um.updates[n].stage # "none" /\ ~um.updates[n].completed

\* the client slots are interchangeable: the second is used after the first
Earlier(t) == \A u \in ClientSlots : u > t => th[u].pc # "idle"

\* UpdateProcess 384-389: the check under the read lock
U_Check(t, n, target, force) ==
    /\ th[t].kind = "upd" /\ th[t].pc = "idle"
    /\ ops < MaxOps /\ Earlier(t)
    /\ IF InProgress(n)
       THEN th' = [th EXCEPT ![t] = [@ EXCEPT !.pc = "u_rejected", !.name = n,
                                               !.ret = "in_progress"]]
       ELSE th' = [th EXCEPT ![t] = [@ EXCEPT !.pc = "u_set", !.name = n,
                                               !.tag = target, !.force = force]]
    /\ ops' = ops + 1
    /\ UNCHANGED <<um, cfg, instances, inst, child, termReq, nextId, nextPort,
                   extPorts, cancelled, crashes>>

\* UpdateProcess 392-403: the initial status is stored under the write lock
\* and performUpdate is launched; the call returns nil
U_Set(t) ==
    /\ th[t].kind = "upd" /\ th[t].pc = "u_set"
    /\ um' = Status(um, th[t].name, "initializing", FALSE)
    /\ th' = [th EXCEPT ![t].pc = "p_begin"]
    /\ UNCHANGED <<cfg, instances, inst, child, termReq, nextId, nextPort,
                   extPorts, cancelled, ops, crashes>>

\* a failure path that forgets the completed flag
FailedKeepsInProgress(t, why) ==
    /\ um' = Status(um, th[t].name, "failed", FALSE)
    /\ th' = [th EXCEPT ![t].pc = "p_failed", ![t].ret = why]

\* the pipeline ends in stage failed
Failed(t, why) ==
    /\ um' = Status(um, th[t].name, "failed", TRUE)
    /\ th' = [th EXCEPT ![t].pc = "p_failed", ![t].ret = why]

\* performUpdate 409-428: every configured process has a repository, so the
\* pipeline enters fetching_version
P_Begin(t) ==
    /\ th[t].kind = "upd" /\ th[t].pc = "p_begin"
    /\ um' = Status(um, th[t].name, "fetching_version", FALSE)
    /\ th' = [th EXCEPT ![t].pc = "p_fetch"]
    /\ UNCHANGED <<cfg, instances, inst, child, termReq, nextId, nextPort,
                   extPorts, cancelled, ops, crashes>>

\* GetVersion: the empty target resolves to the latest release
Resolve(target) == IF target = "" THEN Latest ELSE target

\* a pipeline that never compares the target with the current version
P_FetchAlwaysDownloads(t) ==
    /\ th[t].kind = "upd" /\ th[t].pc = "p_fetch"
    /\ \/ Failed(t, "fetch_failed")
       \/ /\ um' = Status(um, th[t].name, "downloading", FALSE)
          /\ th' = [th EXCEPT ![t].pc = "p_lock", ![t].tag = Resolve(th[t].tag)]
    /\ UNCHANGED <<cfg, instances, inst, child, termReq, nextId, nextPort,
                   extPorts, cancelled, ops, crashes>>

\* performUpdate 430-467: GetVersion answers or fails; an update to the
\* current version without force completes at once; otherwise downloading
P_Fetch(t) ==
    /\ th[t].kind = "upd" /\ th[t].pc = "p_fetch"
    /\ \/ Failed(t, "fetch_failed")
       \/ LET g == Resolve(th[t].tag) IN
          IF GetCurrentVersion(th[t].name) = <<g>> /\ ~th[t].force
          THEN /\ um' = Status(um, th[t].name, "completed", TRUE)
               /\ th' = [th EXCEPT ![t].pc = "p_done", ![t].ret = "noop",
                                   ![t].tag = g]
          ELSE /\ um' = Status(um, th[t].name, "downloading", FALSE)
               /\ th' = [th EXCEPT ![t].pc = "p_lock", ![t].tag = g]
    /\ UNCHANGED <<cfg, instances, inst, child, termReq, nextId, nextPort,
                   extPorts, cancelled, ops, crashes>>

\* Manager.GetProcessRepository
GetProcessRepository(n) == cfg[n].repo

\* getRepoLock 661-669: the key of the mutex of a repository in m.repoLocks
getRepoLock(repository) == repository

\* the mutex performUpdate takes for the update of n
RepoLockOf(n) == getRepoLock(GetProcessRepository(n))

\* performUpdate 472-474: repoLock.Lock()
P_Lock(t) ==
    /\ th[t].kind = "upd" /\ th[t].pc = "p_lock"
    /\ um.repoLocks[RepoLockOf(th[t].name)] = 0
    /\ um' = [um EXCEPT !.repoLocks[RepoLockOf(th[t].name)] = t]
    /\ th' = [th EXCEPT ![t].pc = "p_stat"]
    /\ UNCHANGED <<cfg, instances, inst, child, termReq, nextId, nextPort,
                   extPorts, cancelled, ops, crashes>>

\* a check that releases the mutex before the download instead of after it
P_StatUnlocksEarly(t) ==
    /\ th[t].kind = "upd" /\ th[t].pc = "p_stat"
    /\ LET r == GetProcessRepository(th[t].name) IN
       IF um.files[r][th[t].tag] # "absent"
       THEN /\ um' = Status([um EXCEPT !.repoLocks[RepoLockOf(th[t].name)] = 0],
                            th[t].name, "starting_new", FALSE)
            /\ th' = [th EXCEPT ![t].pc = "p_start", ![t].ret = "skipped"]
       ELSE /\ um' = [um EXCEPT !.downloads = @ + 1,
                                !.repoLocks[RepoLockOf(th[t].name)] = 0]
            /\ th' = [th EXCEPT ![t].pc = "p_download"]
    /\ UNCHANGED <<cfg, instances, inst, child, termReq, nextId, nextPort,
                   extPorts, cancelled, ops, crashes>>

\* performUpdate 477-479, 508-512: os.Stat finds a file (of any content):
\* unlock and go on to starting_new; 480-493: otherwise the download begins
P_Stat(t) ==
    /\ th[t].kind = "upd" /\ th[t].pc = "p_stat"
    /\ LET r == GetProcessRepository(th[t].name) IN
       IF um.files[r][th[t].tag] # "absent"
       THEN /\ um' = Status([um EXCEPT !.repoLocks[RepoLockOf(th[t].name)] = 0],
                            th[t].name, "starting_new", FALSE)
            /\ th' = [th EXCEPT ![t].pc = "p_start", ![t].ret = "skipped"]
       ELSE /\ um' = [um EXCEPT !.downloads = @ + 1]
            /\ th' = [th EXCEPT ![t].pc = "p_download"]
    /\ UNCHANGED <<cfg, instances, inst, child, termReq, nextId, nextPort,
                   extPorts, cancelled, ops, crashes>>

\* a conversion that takes the first asset whatever its extension
convertReleaseAnyAsset(assets) ==
    IF assets = <<>> THEN "" ELSE assets[1].url

\* convertRelease 501-520: the AssetURL of the Version is the URL of the
\* first asset whose extension is .exe, and empty when there is none
convertRelease(assets) ==
    LET exe == {k \in 1..Len(assets) : assets[k].ext = ".exe"}
    IN IF exe = {} THEN "" ELSE assets[SetMin(exe)].url

\* DownloadVersion and DownloadAsset: without an asset URL the call fails at
\* once; otherwise the file is written completely, or the request fails
\* before the file is created, or the copy breaks off
DownloadOutcomes(assetURL) ==
    IF assetURL = "" THEN {"no_asset"} ELSE {"complete", "absent", "partial"}

\* performUpdate 483-491: progressCallback stores 20 + downloaded/total*50;
\* a copy that broke off has reported part of the file, a complete one all
DownloadProgress(o, before) ==
    IF o = "partial" THEN 45 ELSE IF o = "complete" THEN 70 ELSE before

\* performUpdate 493-512: the download ends, the lock is released, and a
\* failed download fails the update
P_Download(t) ==
    /\ th[t].kind = "upd" /\ th[t].pc = "p_download"
    /\ \E o \in DownloadOutcomes(convertRelease(um.releases[th[t].tag])) :
          LET r == GetProcessRepository(th[t].name)
              u == [um EXCEPT !.files[r][th[t].tag] = IF o = "no_asset" THEN @ ELSE o,
                              !.progress[th[t].name] = DownloadProgress(o, @),
                              !.repoLocks[RepoLockOf(th[t].name)] = 0]
          IN IF o = "complete"
             THEN /\ um' = Status(u, th[t].name, "starting_new", FALSE)
                  /\ th' = [th EXCEPT ![t].pc = "p_start", ![t].ret = "downloaded"]
             ELSE /\ um' = Status(u, th[t].name, "failed", TRUE)
                  /\ th' = [th EXCEPT ![t].pc = "p_failed",
                                      ![t].ret = IF o = "no_asset" THEN o
                                                 ELSE "download_failed"]
    /\ UNCHANGED <<cfg, instances, inst, child, termReq, nextId, nextPort,
                   extPorts, cancelled, ops, crashes>>

\* performUpdate 517: StartProcess(processName)
P_Start(t) ==
    /\ th[t].kind = "upd" /\ th[t].pc = "p_start"
    /\ th' = [th EXCEPT ![t] = Enter([@ EXCEPT !.pc = "p_started"], "start",
                                      "sp_check", th[t].name, 0)]
    /\ UNCHANGED <<um, cfg, instances, inst, child, termReq, nextId, nextPort,
                   extPorts, cancelled, ops, crashes>>

\* performUpdate 518-540: a failed start fails the update; otherwise, after
\* the warm-up sleep, stopping_old and the snapshot of the instances
P_Started(t) ==
    /\ th[t].kind = "upd" /\ th[t].pc = "p_started" /\ th[t].call = "none"
    /\ IF th[t].ret # "ok"
       THEN /\ um' = Status(um, th[t].name, "failed", TRUE)
            /\ th' = [th EXCEPT ![t].pc = "p_failed"]
       ELSE /\ um' = Status(um, th[t].name, "stopping_old", FALSE)
            /\ th' = [th EXCEPT ![t].pc = "p_stop", ![t].N = <<th[t].rid>>,
                                ![t].O = instances[th[t].name], ![t].i = 0]
    /\ UNCHANGED <<cfg, instances, inst, child, termReq, nextId, nextPort,
                   extPorts, cancelled, ops, crashes>>

\* performUpdate 545-547: an instance of the snapshot is stopped when it is
\* not the new one and its status is running
StopsOld(o, new) == o # new /\ inst[o].status = "running"

\* performUpdate 545-564: StopProcessGracefully on the next old instance,
\* errors logged only; after the loop, updating_version
P_Stop(t) ==
    /\ th[t].kind = "upd" /\ th[t].pc = "p_stop" /\ th[t].call = "none"
    /\ IF th[t].i < Len(th[t].O)
       THEN LET o == th[t].O[th[t].i + 1] IN
            /\ IF StopsOld(o, th[t].N[1])
               THEN th' = [th EXCEPT ![t] =
                              Enter([@ EXCEPT !.i = th[t].i + 1], "gstop",
                                    "g_find", th[t].name, o)]
               ELSE th' = [th EXCEPT ![t].i = th[t].i + 1]
            /\ um' = um
       ELSE /\ um' = Status(um, th[t].name, "updating_version", FALSE)
            /\ th' = [th EXCEPT ![t].pc = "p_version", ![t].i = 0,
                                ![t].ret = "none", ![t].rid = 0]
    /\ UNCHANGED <<cfg, instances, inst, child, termReq, nextId, nextPort,
                   extPorts, cancelled, ops, crashes>>

\* performUpdate 568-577: SetCurrentVersion and the completed status
P_Version(t) ==
    /\ th[t].kind = "upd" /\ th[t].pc = "p_version"
    /\ um' = Status(SetCurrentVersion(um, th[t].name, th[t].tag),
                    th[t].name, "completed", TRUE)
    /\ th' = [th EXCEPT ![t].pc = "p_done", ![t].ret = "updated"]
    /\ UNCHANGED <<cfg, instances, inst, child, termReq, nextId, nextPort,
                   extPorts, cancelled, ops, crashes>>

performUpdate(t) ==
    \/ P_Begin(t) \/ P_Fetch(t) \/ P_Lock(t) \/ P_Stat(t) \/ P_Download(t)
    \/ P_Start(t) \/ P_Started(t) \/ P_Stop(t) \/ P_Version(t)

\* Manager.GetPreviousVersion: the second history entry, when there is one
GetPreviousVersion(n) ==
    IF Len(um.history[n]) < 2 THEN <<>> ELSE <<um.history[n][2]>>

\* RollbackProcess 586-609: the tag to roll back to; without a target it is
\* the previous version, with a target it is the target when the history
\* holds it; <<>> is the error return
RollbackTag(n, target) ==
    IF target = "" THEN GetPreviousVersion(n)
    ELSE IF target \in SeqToSet(um.history[n]) THEN <<target>> ELSE <<>>

\* RollbackProcess 582-610: resolves the tag or returns the error; O keeps
\* the history the call read and N the target it was given
RB_Resolve(t, n, target) ==
    /\ th[t].kind = "upd" /\ th[t].pc = "idle"
    /\ ops < MaxOps /\ Earlier(t)
    /\ LET g == RollbackTag(n, target) IN
       th' = [th EXCEPT ![t] =
                 IF g = <<>>
                 THEN [@ EXCEPT !.pc = "rb_failed", !.name = n, !.ret = "no_version",
                                !.O = um.history[n], !.N = <<target>>]
                 ELSE [@ EXCEPT !.pc = "rb_update", !.name = n, !.tag = g[1],
                                !.force = TRUE,
                                !.O = um.history[n], !.N = <<target>>]]
    /\ ops' = ops + 1
    /\ UNCHANGED <<um, cfg, instances, inst, child, termReq, nextId, nextPort,
                   extPorts, cancelled, crashes>>

\* RollbackProcess 613: UpdateProcess(processName, tag, true), whose check
\* under the read lock rejects or accepts
RB_Update(t) ==
    /\ th[t].kind = "upd" /\ th[t].pc = "rb_update"
    /\ IF InProgress(th[t].name)
       THEN th' = [th EXCEPT ![t] = [@ EXCEPT !.pc = "u_rejected",
                                               !.ret = "in_progress"]]
       ELSE th' = [th EXCEPT ![t].pc = "u_set"]
    /\ UNCHANGED <<um, cfg, instances, inst, child, termReq, nextId, nextPort,
                   extPorts, cancelled, ops, crashes>>

\* Manager.RollbackProcess
RollbackProcess(t, n, target) == RB_Resolve(t, n, target) \/ RB_Update(t)

\* -------------------------------------------------- gRPC Server.WatchUpdate
\* the update id of the gRPC response names the process; one update of a name
\* is watched, so the name stands for the id
Terminal == {"completed", "failed"}

\* a broadcast that skips a channel which still has room for one frame
BroadcastDropsEarly(u, id, status) ==
    [u EXCEPT !.chans = [t \in Slots |->
        IF t \in SeqToSet(u.watchers[id]) /\ Len(@[t]) < WatchBuffer - 1
        THEN Append(@[t], status) ELSE @[t]]]

\* BroadcastUpdateStatus 577-589: a non-blocking send to every channel
\* registered for the id; a full channel drops the frame. No function of the
\* repository calls it
BroadcastUpdateStatus(u, id, status) ==
    [u EXCEPT !.chans = [t \in Slots |->
        IF t \in SeqToSet(u.watchers[id]) /\ Len(@[t]) < WatchBuffer
        THEN Append(@[t], status) ELSE @[t]]]

\* Server.UpdateProcess 438-464 for the first update of n, to the installed
\* release and without force
W_Update(t, n) ==
    /\ um.updates[n].stage = "none"
    /\ U_Check(t, n, "v1", FALSE)

\* WatchUpdate 526-540: the channel is made and registered for the id; arg
\* records whether the update had finished by then
W_Subscribe(t, n) ==
    /\ th[t].kind = "watch" /\ th[t].pc = "idle"
    /\ um' = [um EXCEPT !.watchers[n] = Append(@, t), !.chans[t] = <<>>]
    /\ th' = [th EXCEPT ![t] = [@ EXCEPT !.pc = "w_wait", !.name = n,
                                          !.arg = IF InProgress(n) THEN 1 ELSE 0]]
    /\ UNCHANGED <<cfg, instances, inst, child, termReq, nextId, nextPort,
                   extPorts, cancelled, ops, crashes>>

\* WatchUpdate 543-554: the deferred removal of the channel
Unsubscribe(u, t, n) ==
    [u EXCEPT !.watchers[n] = RemoveId(@, t), !.chans[t] = <<>>]

\* WatchUpdate 559-569: a frame arrives on the channel and is sent on the
\* stream; a terminal frame ends the call
W_Frame(t) ==
    /\ um.chans[t] # <<>>
    /\ um' = [um EXCEPT !.chans[t] = Tail(@), !.got[t] = Append(@, Head(um.chans[t]))]
    /\ IF Head(um.chans[t]).status \in Terminal
       THEN th' = [th EXCEPT ![t].pc = "w_defer", ![t].ret = Head(um.chans[t]).status]
       ELSE UNCHANGED th

\* WatchUpdate 570-572: the client cancels the stream
W_Ctx(t) ==
    /\ um' = um
    /\ th' = [th EXCEPT ![t].pc = "w_defer", ![t].ret = "ctx_done"]

\* WatchUpdate 557-573: the select of the streaming loop
W_Select(t) ==
    /\ th[t].kind = "watch" /\ th[t].pc = "w_wait"
    /\ W_Frame(t) \/ W_Ctx(t)
    /\ UNCHANGED <<cfg, instances, inst, child, termReq, nextId, nextPort,
                   extPorts, cancelled, ops, crashes>>

\* WatchUpdate 543-554: the deferred function of a stream that returns takes
\* the channel out of the watchers under the lock and closes it
W_Cleanup(t) ==
    /\ th[t].kind = "watch" /\ th[t].pc = "w_defer"
    /\ um' = Unsubscribe(um, t, th[t].name)
    /\ th' = [th EXCEPT ![t].pc = "w_done"]
    /\ UNCHANGED <<cfg, instances, inst, child, termReq, nextId, nextPort,
                   extPorts, cancelled, ops, crashes>>

\* the frame a caller hands to BroadcastUpdateStatus: seq numbers the
\* broadcasts of the update id in dispatch order
Frame(n, status) == [seq |-> Len(um.sent[n]) + 1, status |-> status]

\* a terminal status was broadcast for the update id
Finished(n) == um.sent[n] # <<>> /\ um.sent[n][Len(um.sent[n])].status \in Terminal

\* a caller broadcasts the next status of the update of n
Broadcast(n, status) ==
    /\ Len(um.sent[n]) < MaxFrames /\ ~Finished(n)
    /\ um' = BroadcastUpdateStatus([um EXCEPT !.sent[n] = Append(@, Frame(n, status))],
                                   n, Frame(n, status))
    /\ UNCHANGED <<cfg, instances, inst, child, termReq, nextId, nextPort,
                   extPorts, cancelled, th, ops, crashes>>

\* ------------------------------------------------- GitHubPoller (polling)
\* CheckForUpdates 134-138: an update is available when no current version
\* is recorded or its tag differs from the latest release
UpdateAvailable(n, latest) ==
    um.current[n] = <<>> \/ um.current[n][1] # latest

\* pollAll 240-246 polls one name after the other on the poller goroutine:
\* a poll is under way until its checkAndUpdate has returned
Polling == \E u \in ClientSlots : th[u].pc = "k_update" \/ (th[u].pc = "u_set" /\ th[u].arg = 1)

\* checkAndUpdate 294-317 for the release pollProcess found: an update in
\* progress ends the poll; otherwise CheckForUpdates loads the version
\* information, fetches the latest release again (o tells whether that
\* request succeeds), sets UpdateAvailable and saves the document
K_Check(t, n, latest, o) ==
    /\ th[t].kind = "upd" /\ th[t].pc = "idle"
    /\ ops < MaxOps /\ Earlier(t) /\ ~Polling
    /\ IF InProgress(n)
       THEN /\ th' = [th EXCEPT ![t] = [@ EXCEPT !.pc = "k_done", !.name = n,
                                                 !.ret = "nil"]]
            /\ um' = um
       ELSE IF o = "error"
       THEN /\ th' = [th EXCEPT ![t] = [@ EXCEPT !.pc = "k_done", !.name = n,
                                                 !.tag = latest,
                                                 !.ret = "check_failed"]]
            /\ um' = um
       ELSE /\ th' = [th EXCEPT ![t] = [@ EXCEPT
                         !.pc = "k_update", !.name = n, !.tag = latest,
                         !.arg = IF UpdateAvailable(n, latest) THEN 1 ELSE 0]]
            /\ um' = [um EXCEPT !.saved[n] = [current |-> um.current[n],
                                              history |-> um.history[n]]]
    /\ ops' = ops + 1
    /\ UNCHANGED <<cfg, instances, inst, child, termReq, nextId, nextPort,
                   extPorts, cancelled, crashes>>

\* checkAndUpdate 319-336: with an update available the log line reads
\* versionInfo.CurrentVersion.Tag, a nil pointer when no current version is
\* recorded, and the panic of the poller goroutine ends the supervisor with
\* all its goroutines; otherwise UpdateProcess(name, latest, false) runs its
\* own check (384-389)
K_Update(t) ==
    /\ th[t].kind = "upd" /\ th[t].pc = "k_update"
    /\ th' = IF th[t].arg = 1 /\ um.current[th[t].name] = <<>>
             THEN [x \in Threads |->
                     IF x = t THEN [th[x] EXCEPT !.pc = "k_panic", !.ret = "panic"]
                     ELSE [th[x] EXCEPT !.pc = "gone"]]
             ELSE [th EXCEPT ![t] =
                     IF th[t].arg = 0
                     THEN [@ EXCEPT !.pc = "k_done", !.ret = "nil"]
                     ELSE IF InProgress(th[t].name)
                     THEN [@ EXCEPT !.pc = "k_done", !.ret = "trigger_failed"]
                     ELSE [@ EXCEPT !.pc = "u_set", !.force = FALSE]]
    /\ UNCHANGED <<um, cfg, instances, inst, child, termReq, nextId, nextPort,
                   extPorts, cancelled, ops, crashes>>

\* ------------------------------------------------------------- main guard
\* a supervisor process that is running
Live(p) == um.sup[p].pc \notin {"off", "killed", "fatal", "exited"}

\* os.OpenFile with O_CREATE|O_EXCL (main.go 67, 88) creates the file and
\* keeps it open
Create(l, p) == [exists |-> TRUE, pid |-> 0, open |-> {p}]

\* os.Remove (main.go 86, 98), its result ignored by the caller: the
\* program builds for Windows only (taskkill, process/kill_windows.go) and
\* os.OpenFile opens without delete sharing, so the removal of a file that
\* a process holds open fails
Remove(l) == IF l.exists /\ l.open = {} THEN NoLock ELSE l

\* the process ends and the system closes its handle
Exit(u, p, pc) ==
    [u EXCEPT !.sup[p].pc = pc, !.lock.open = @ \ {p}]

\* main 67-69: a supervisor boots and tries the exclusive create
L_Open(p) ==
    /\ um.sup[p].pc = "off"
    /\ um' = IF um.lock.exists
             THEN [um EXCEPT !.sup[p].pc = "read"]
             ELSE [um EXCEPT !.lock = Create(@, p), !.sup[p].pc = "write"]
    /\ UNCHANGED <<cfg, instances, inst, child, termReq, nextId, nextPort,
                   extPorts, cancelled, th, ops, crashes>>

\* main 72-75: the lock exists; read it and parse the pid. A file that is
\* gone or holds no number, or the reader's own pid, skips the kill
L_Read(p) ==
    /\ um.sup[p].pc = "read"
    /\ LET old == IF um.lock.exists THEN um.lock.pid ELSE 0
       IN um' = [um EXCEPT !.sup[p] = [pc  |-> IF old \in {0, p} THEN "remove" ELSE "kill",
                                       old |-> old]]
    /\ UNCHANGED <<cfg, instances, inst, child, termReq, nextId, nextPort,
                   extPorts, cancelled, th, ops, crashes>>

\* main 76-82: taskkill /F /PID old; it ends a running process and fails,
\* with a warning only, when the process is gone
L_Kill(p) ==
    /\ um.sup[p].pc = "kill"
    /\ um' = IF Live(um.sup[p].old)
             THEN [Exit(um, um.sup[p].old, "killed") EXCEPT !.sup[p].pc = "remove"]
             ELSE [um EXCEPT !.sup[p].pc = "remove"]
    /\ UNCHANGED <<cfg, instances, inst, child, termReq, nextId, nextPort,
                   extPorts, cancelled, th, ops, crashes>>

\* main 85-86: remove the old lock file
L_Remove(p) ==
    /\ um.sup[p].pc = "remove"
    /\ um' = [um EXCEPT !.lock = Remove(@), !.sup[p].pc = "retry"]
    /\ UNCHANGED <<cfg, instances, inst, child, termReq, nextId, nextPort,
                   extPorts, cancelled, th, ops, crashes>>

\* main 87-91: the second exclusive create; a failure is fatal
L_Retry(p) ==
    /\ um.sup[p].pc = "retry"
    /\ um' = IF um.lock.exists
             THEN Exit(um, p, "fatal")
             ELSE [um EXCEPT !.lock = Create(@, p), !.sup[p].pc = "write"]
    /\ UNCHANGED <<cfg, instances, inst, child, termReq, nextId, nextPort,
                   extPorts, cancelled, th, ops, crashes>>

\* main 96-101: register the deferred cleanup and write the pid
L_Write(p) ==
    /\ um.sup[p].pc = "write"
    /\ um' = [um EXCEPT !.lock.pid = p, !.sup[p].pc = "run"]
    /\ UNCHANGED <<cfg, instances, inst, child, termReq, nextId, nextPort,
                   extPorts, cancelled, th, ops, crashes>>

\* main 112-446: a log.Fatalf after the guard exits without the deferred
\* cleanup
L_Fatal(p) ==
    /\ um.sup[p].pc = "run"
    /\ um' = Exit(um, p, "fatal")
    /\ UNCHANGED <<cfg, instances, inst, child, termReq, nextId, nextPort,
                   extPorts, cancelled, th, ops, crashes>>

\* main 96-97: main returns; the deferred function closes the lock file
L_Close(p) ==
    /\ um.sup[p].pc = "run"
    /\ um' = [um EXCEPT !.lock.open = @ \ {p}, !.sup[p].pc = "unlink"]
    /\ UNCHANGED <<cfg, instances, inst, child, termReq, nextId, nextPort,
                   extPorts, cancelled, th, ops, crashes>>

\* main 98: the deferred function removes the lock file and the process ends
L_Unlink(p) ==
    /\ um.sup[p].pc = "unlink"
    /\ um' = [um EXCEPT !.lock = Remove(@), !.sup[p].pc = "exited"]
    /\ UNCHANGED <<cfg, instances, inst, child, termReq, nextId, nextPort,
                   extPorts, cancelled, th, ops, crashes>>

\* ------------------------------------------------- loadbalancer.Balancer
\* regexp.MatchString of a literal pattern: the pattern occurs somewhere in
\* the method name (the match is not anchored)
MatchString(pattern, method) ==
    \E k \in 0..(Len(method) - Len(pattern)) :
        SubSeq(method, k + 1, k + Len(pattern)) = pattern

\* a route matches when one of its patterns does
RouteMatches(route, method) ==
    \E j \in 1..Len(route.methods) : MatchString(route.methods[j], method)

\* a search that returns the last matching route
RECURSIVE findRouteLast(_, _, _)
findRouteLast(routes, k, method) ==
    IF k > Len(routes) THEN 0
    ELSE LET later == findRouteLast(routes, k + 1, method) IN
         IF later # 0 THEN later
         ELSE IF RouteMatches(routes[k], method) THEN k ELSE 0

\* findRoute 213-222: the loop over lb.routes from index k; 0 is nil
RECURSIVE findRoute(_, _, _)
findRoute(routes, k, method) ==
    IF k > Len(routes) THEN 0
    ELSE IF RouteMatches(routes[k], method) THEN k
    ELSE findRoute(routes, k + 1, method)

\* getHealthyBackends 266-283: the ports of the running instances of the
\* target processes, in the order of the targets and of their lists
RECURSIVE getHealthyBackends(_)
getHealthyBackends(processNames) ==
    IF processNames = <<>> THEN <<>>
    ELSE LET n == Head(processNames)
             ids == IF n \in Names THEN instances[n] ELSE <<>>
             ok(i) == inst[i].status = "running" /\ inst[i].port > 0
         IN [k \in 1..Cardinality({j \in 1..Len(ids) : ok(ids[j])}) |->
                inst[ids[CHOOSE j \in 1..Len(ids) :
                            /\ ok(ids[j])
                            /\ Cardinality({l \in 1..j : ok(ids[l])}) = k]].port]
            \o getHealthyBackends(Tail(processNames))

\* proxyHandler 119-142: the route is looked up, a backend is selected (the
\* first healthy one for strategy primary) and dialled; N is the method, rid
\* the route and port the backend
LB_Call(t, method) ==
    /\ th[t].kind = "lb" /\ th[t].pc = "idle"
    /\ LET k == findRoute(um.routes, 1, method) IN
       IF k = 0
       THEN th' = [th EXCEPT ![t] = [@ EXCEPT !.pc = "lb_done", !.N = method,
                                               !.ret = "unimplemented"]]
       ELSE LET backends == getHealthyBackends(um.routes[k].target) IN
            IF backends = <<>>
            THEN th' = [th EXCEPT ![t] = [@ EXCEPT !.pc = "lb_done", !.N = method,
                                                    !.rid = k,
                                                    !.ret = "unavailable"]]
            ELSE th' = [th EXCEPT ![t] = [@ EXCEPT !.pc = "lb_done", !.N = method,
                                                    !.rid = k,
                                                    !.port = backends[1],
                                                    !.ret = "proxied"]]
    /\ UNCHANGED <<um, cfg, instances, inst, child, termReq, nextId, nextPort,
                   extPorts, cancelled, ops, crashes>>

\* the client of the load balancer makes its next call
LB_Next(t) ==
    /\ th[t].kind = "lb" /\ th[t].pc = "lb_done"
    /\ th' = [th EXCEPT ![t] = [IdleThread EXCEPT !.kind = "lb"]]
    /\ UNCHANGED <<um, cfg, instances, inst, child, termReq, nextId, nextPort,
                   extPorts, cancelled, ops, crashes>>

\* ------------------------------------------------- Balancer.selectBackend
\* selectBackend 227-231 for the route with index k: the healthy backends
\* are read; without one the call fails
RR_Call(t, k) ==
    /\ th[t].kind = "rr" /\ th[t].pc = "idle"
    /\ k \in 1..Len(um.routes)
    /\ Len(um.picks[k]) + Cardinality({u \in ClientSlots : th[u].rid = k})
          < MaxSelections
    /\ th' = [th EXCEPT ![t] =
                 IF getHealthyBackends(um.routes[k].target) = <<>>
                 THEN [@ EXCEPT !.ret = "unavailable"]
                 ELSE [@ EXCEPT !.pc = "rr_lookup", !.rid = k,
                                !.O = getHealthyBackends(um.routes[k].target)]]
    /\ UNCHANGED <<um, cfg, instances, inst, child, termReq, nextId, nextPort,
                   extPorts, cancelled, ops, crashes>>

\* line 240: counter := lb.counters["route_%p"], a key NewBalancer (76) never
\* stored, read without a lock; 0 is nil
RR_Lookup(t) ==
    /\ th[t].kind = "rr" /\ th[t].pc = "rr_lookup"
    /\ th' = [th EXCEPT ![t].req = um.counters[th[t].rid],
                        ![t].pc = IF um.counters[th[t].rid] = 0
                                  THEN "rr_create" ELSE "rr_add"]
    /\ UNCHANGED <<um, cfg, instances, inst, child, termReq, nextId, nextPort,
                   extPorts, cancelled, ops, crashes>>

\* lines 241-245: a new counter at 0 is stored in the map, without a lock
RR_Create(t) ==
    /\ th[t].kind = "rr" /\ th[t].pc = "rr_create"
    /\ um' = [um EXCEPT !.ctr = Append(@, 0),
                        !.counters[th[t].rid] = Len(um.ctr) + 1]
    /\ th' = [th EXCEPT ![t].req = Len(um.ctr) + 1, ![t].pc = "rr_add"]
    /\ UNCHANGED <<cfg, instances, inst, child, termReq, nextId, nextPort,
                   extPorts, cancelled, ops, crashes>>

\* the index selectBackend computes from the incremented counter
BackendIndex(v, len) == v % len

\* lines 246-247: atomic.AddUint64(counter, 1) % len(backends) on the counter
\* the call holds; picks keeps the backends chosen on the route, in order
RR_Add(t) ==
    /\ th[t].kind = "rr" /\ th[t].pc = "rr_add"
    /\ LET v == um.ctr[th[t].req] + 1
           b == th[t].O[BackendIndex(v, Len(th[t].O)) + 1] IN
       /\ um' = [um EXCEPT !.ctr[th[t].req] = v,
                           !.picks[th[t].rid] = Append(@, b)]
       /\ th' = [th EXCEPT ![t] = [IdleThread EXCEPT !.kind = "rr", !.port = b]]
    /\ UNCHANGED <<cfg, instances, inst, child, termReq, nextId, nextPort,
                   extPorts, cancelled, ops, crashes>>

selectBackend(t) == RR_Lookup(t) \/ RR_Create(t) \/ RR_Add(t)

\* ------------------------------------- concurrent Manager.SetCurrentVersion
\* SetCurrentVersion 87-91: LoadVersionInfo returns, under m.mu, the pointer
\* to the cached VersionInfo of n; the lock is released on return
SC_Load(t, n, v) ==
    /\ th[t].kind = "ver" /\ th[t].pc = "idle"
    /\ ops < MaxOps
    /\ th' = [th EXCEPT ![t] = [@ EXCEPT !.pc = "sc_current", !.name = n, !.tag = v]]
    /\ ops' = ops + 1
    /\ UNCHANGED <<um, cfg, instances, inst, child, termReq, nextId, nextPort,
                   extPorts, cancelled, crashes>>

\* line 93: info.CurrentVersion = version, outside any lock
SC_Current(t) ==
    /\ th[t].kind = "ver" /\ th[t].pc = "sc_current"
    /\ um' = [um EXCEPT !.current[th[t].name] = <<th[t].tag>>]
    /\ th' = [th EXCEPT ![t].pc = "sc_scan"]
    /\ UNCHANGED <<cfg, instances, inst, child, termReq, nextId, nextPort,
                   extPorts, cancelled, ops, crashes>>

\* lines 96-102: the scan of info.History for the tag
SC_Scan(t) ==
    /\ th[t].kind = "ver" /\ th[t].pc = "sc_scan"
    /\ th' = [th EXCEPT ![t].pc = IF th[t].tag \in SeqToSet(um.history[th[t].name])
                                  THEN "sc_save" ELSE "sc_read"]
    /\ UNCHANGED <<um, cfg, instances, inst, child, termReq, nextId, nextPort,
                   extPorts, cancelled, ops, crashes>>

\* line 104: the right-hand side append(..., info.History...) is evaluated
SC_Read(t) ==
    /\ th[t].kind = "ver" /\ th[t].pc = "sc_read"
    /\ th' = [th EXCEPT ![t].pc = "sc_write", ![t].O = um.history[th[t].name]]
    /\ UNCHANGED <<um, cfg, instances, inst, child, termReq, nextId, nextPort,
                   extPorts, cancelled, ops, crashes>>

\* lines 104-108: info.History is assigned and cut to 10 entries
SC_Write(t) ==
    /\ th[t].kind = "ver" /\ th[t].pc = "sc_write"
    /\ um' = [um EXCEPT !.history[th[t].name] = Truncate(<<th[t].tag>> \o th[t].O)]
    /\ th' = [th EXCEPT ![t].pc = "sc_save"]
    /\ UNCHANGED <<cfg, instances, inst, child, termReq, nextId, nextPort,
                   extPorts, cancelled, ops, crashes>>

\* SaveVersionInfo 69-84: under m.mu the VersionInfo is marshalled and the
\* file is written
SC_Save(t) ==
    /\ th[t].kind = "ver" /\ th[t].pc = "sc_save"
    /\ um' = [um EXCEPT !.saved[th[t].name] =
                 [current |-> um.current[th[t].name],
                  history |-> um.history[th[t].name]]]
    /\ th' = [th EXCEPT ![t].pc = "sc_done"]
    /\ UNCHANGED <<cfg, instances, inst, child, termReq, nextId, nextPort,
                   extPorts, cancelled, ops, crashes>>

SetCurrentSteps(t) ==
    \/ SC_Current(t) \/ SC_Scan(t) \/ SC_Read(t) \/ SC_Write(t) \/ SC_Save(t)

\* ------------------------------------------------------- version.Manager
\* the tag of a release not set before: releases are numbered as they are
\* set for the first time, so the newest one in the history is its head
NextTag(n) == IF um.history[n] = <<>> THEN 1 ELSE Head(um.history[n]) + 1

\* a caller sets the current version of n to a release new to n or to one of
\* the history of n, and reads it back
V_Set(t, n, v) ==
    /\ th[t].kind = "ver"
    /\ v <= MaxTags
    /\ v = NextTag(n) \/ v \in SeqToSet(um.history[n])
    /\ um' = SetCurrentVersion(um, n, v)
    /\ th' = [th EXCEPT ![t] = [@ EXCEPT !.pc = "v_set", !.name = n, !.tag = v]]
    /\ UNCHANGED <<cfg, instances, inst, child, termReq, nextId, nextPort,
                   extPorts, cancelled, ops, crashes>>

Configs ==
    {[n \in Names |-> IF n = "A"
                      THEN [max |-> m, auto |-> a, env |-> TRUE, repo |-> "owner/R"]
                      ELSE [max |-> 1, auto |-> FALSE, env |-> TRUE,
                            repo |-> "owner/R"]] :
        m \in 1..2, a \in BOOLEAN}

\* ports held by other processes: none, or the first two
ExtPortSets == {{}, {BasePort, BasePort + 1}}

\* NewManager and Initialize: no instances, the cursor at 5001
InitManager ==
    /\ instances = [n \in Names |-> <<>>]
    /\ inst = [i \in Ids |-> NoInst]
    /\ child = [i \in Ids |-> "none"]
    /\ termReq = {}
    /\ nextId = 1
    /\ nextPort = BasePort
    /\ cancelled = FALSE
    /\ ops = 0
    /\ crashes = 0
    /\ um = NoUpdates

\* the goroutines before any call: the client slots and the coordinator
InitThreads(first, second, coord) ==
    th = [t \in Threads |->
            IF t = -1 THEN [IdleThread EXCEPT !.kind = first]
            ELSE IF t = -2 THEN [IdleThread EXCEPT !.kind = second]
            ELSE IF t = Coord THEN [IdleThread EXCEPT !.kind = coord]
            ELSE IdleThread]

\* concurrent start and stop calls, monitors and crashing children
Init ==
    /\ InitManager
    /\ cfg \in Configs
    /\ extPorts \in ExtPortSets
    /\ InitThreads("api", "api", "none")

Next ==
    \/ \E t \in ClientSlots, n \in Names : ApiStart(t, n)
    \/ \E t \in ClientSlots, n \in Names, i \in Ids : ApiStop(t, n, i)
    \/ \E t \in ClientSlots : ApiReturn(t)
    \/ \E t \in Threads : StartProcess(t)
    \/ \E t \in Threads : StopProcess(t)
    \/ \E i \in Ids : monitorProcess(i)
    \/ \E i \in Ids : ChildCrash(i)

Spec == Init /\ [][Next]_vars

\* the supervisor shuts down while monitors restart crashed children
InitShutdown ==
    /\ InitManager
    /\ cfg \in {c \in Configs : c["A"].max = 1}
    /\ extPorts = {}
    /\ InitThreads("api", "none", "shut")

NextShutdown ==
    \/ \E t \in ClientSlots, n \in Names : ApiStart(t, n)
    \/ \E t \in ClientSlots : ApiReturn(t)
    \/ \E t \in Threads : StartProcess(t)
    \/ \E t \in Threads : StopProcess(t)
    \/ \E i \in Ids : monitorProcess(i)
    \/ \E i \in Ids : ChildCrash(i)
    \/ \E i \in Ids : CtxKill(i)
    \/ Shutdown

SpecShutdown == InitShutdown /\ [][NextShutdown]_vars

\* the state after k sequential starts of A on a free port range
InitRunning(k, client) ==
    /\ instances = [n \in Names |-> IF n = "A" THEN [j \in 1..k |-> j] ELSE <<>>]
    /\ inst = [i \in Ids |-> IF i <= k
                             THEN [name |-> "A", port |-> BasePort + i - 1,
                                   status |-> "running", bin |-> "v1"]
                             ELSE NoInst]
    /\ child = [i \in Ids |-> IF i <= k THEN "alive" ELSE "none"]
    /\ termReq = {}
    /\ nextId = k + 1
    /\ nextPort = BasePort + k
    /\ extPorts = {}
    /\ cancelled = FALSE
    /\ ops = 0
    /\ crashes = 0
    /\ th = [t \in Threads |->
               IF t = -1 THEN [IdleThread EXCEPT !.kind = client]
               ELSE IF t = -2 /\ client \in {"upd", "ver", "rr"}
               THEN [IdleThread EXCEPT !.kind = client]
               ELSE IF t \in 1..k
               THEN [IdleThread EXCEPT !.kind = "mon", !.pc = "m_wait",
                                       !.name = "A", !.req = t]
               ELSE IdleThread]

\* hot restart of A, which runs one or two instances
RestartConfigs ==
    {[n \in Names |-> IF n = "A"
                      THEN [max |-> m, auto |-> a, env |-> TRUE, repo |-> "owner/R"]
                      ELSE [max |-> 1, auto |-> FALSE, env |-> TRUE,
                            repo |-> "owner/R"]] :
        m \in 1..3, a \in BOOLEAN}

InitRestart ==
    /\ cfg \in RestartConfigs
    /\ um = NoUpdates
    /\ \E k \in 1..2 : k <= cfg["A"].max /\ InitRunning(k, "hr")

\* the instance_id of a request is empty (0), the first instance's (1), or
\* no instance's id
NoSuchId == -1

NextRestart ==
    \/ \E i \in {0, 1, NoSuchId} : R_Begin(-1, "A", i)
    \/ RestartProcess(-1)
    \/ \E t \in Threads : StartProcess(t)
    \/ \E t \in Threads : StopProcess(t)
    \/ \E t \in Threads : StopProcessGracefully(t)
    \/ \E i \in Ids : monitorProcess(i)
    \/ \E i \in Ids : ChildCrash(i)
    \/ \E i \in Ids : ChildObey(i)

SpecRestart == InitRestart /\ [][NextRestart]_vars

\* start and then stop of one instance of A, which runs none, one or two
InitRoundTrip ==
    /\ cfg \in RestartConfigs
    /\ um = NoUpdates
    /\ \E k \in 0..2 : k <= cfg["A"].max /\ InitRunning(k, "rt")

NextRoundTrip ==
    \/ RT_Start(-1, "A")
    \/ RT_Stop(-1)
    \/ \E t \in Threads : StartProcess(t)
    \/ \E t \in Threads : StopProcess(t)
    \/ \E i \in Ids : monitorProcess(i)

SpecRoundTrip == InitRoundTrip /\ [][NextRoundTrip]_vars

\* two update calls for two names that share a repository; A runs one
\* instance or none
UpdateConfigs ==
    {[n \in Names |-> IF n = "A"
                      THEN [max |-> m, auto |-> FALSE, env |-> TRUE,
                            repo |-> "owner/R"]
                      ELSE [max |-> 1, auto |-> FALSE, env |-> TRUE,
                            repo |-> "owner/R"]] :
        m \in 1..2}

\* the two calls are for different names
OtherName(t, n) == \A u \in ClientSlots \ {t} : th[u].name # n

InitUpdate ==
    /\ cfg \in UpdateConfigs
    /\ um = NoUpdates
    /\ \E k \in 0..1 : InitRunning(k, "upd")

NextUpdate ==
    \/ \E t \in ClientSlots, n \in Names, g \in Tags, f \in BOOLEAN :
          OtherName(t, n) /\ U_Check(t, n, g, f)
    \/ \E t \in ClientSlots : U_Set(t)
    \/ \E t \in ClientSlots : performUpdate(t)
    \/ \E t \in Threads : StartProcess(t)
    \/ \E t \in Threads : forceKillProcess(t)
    \/ \E t \in Threads : StopProcessGracefully(t)
    \/ \E i \in Ids : M_Wait(i) \/ M_Remove(i) \/ M_Check(i)
    \/ \E i \in Ids : ChildObey(i)

SpecUpdate == InitUpdate /\ [][NextUpdate]_vars

\* the update calls up to the end of the download stage, for the same name
\* or for two names, whose repositories are the same or differ
UpdateCallConfigs ==
    {[n \in Names |-> IF n = "A"
                      THEN [max |-> 1, auto |-> FALSE, env |-> TRUE,
                            repo |-> "owner/R"]
                      ELSE [max |-> 1, auto |-> FALSE, env |-> TRUE,
                            repo |-> r]] :
        r \in Repos}

InitUpdateCalls ==
    /\ cfg \in UpdateCallConfigs
    /\ um = NoUpdates
    /\ InitRunning(0, "upd")

NextUpdateCalls ==
    \/ \E t \in ClientSlots, n \in Names, g \in Tags \cup {""}, f \in BOOLEAN :
          U_Check(t, n, g, f)
    \/ \E t \in ClientSlots : U_Set(t)
    \/ \E t \in ClientSlots : P_Begin(t)
    \/ \E t \in ClientSlots : P_Fetch(t)
    \/ \E t \in ClientSlots : P_Lock(t)
    \/ \E t \in ClientSlots : P_Stat(t)
    \/ \E t \in ClientSlots : P_Download(t)

SpecUpdateCalls == InitUpdateCalls /\ [][NextUpdateCalls]_vars

\* no version was recorded yet: LoadVersionInfo finds no file
NoVersions ==
    [NoUpdates EXCEPT
        !.current = [n \in Names |-> <<>>],
        !.history = [n \in Names |-> <<>>],
        !.saved   = [n \in Names |-> [current |-> <<>>, history |-> <<>>]]]

\* setCurrent calls on the version records of A and B, empty at first
InitVersion ==
    /\ cfg \in UpdateCallConfigs
    /\ um = NoVersions
    /\ InitRunning(0, "ver")

NextVersion == \E n \in Names, v \in 1..MaxTags : V_Set(-1, n, v)

SpecVersion == InitVersion /\ [][NextVersion]_vars

\* rollback calls: each name has installed v1 only, or v1 and then v2
Installed(h) ==
    [NoUpdates EXCEPT
        !.files   = [r \in Repos |-> [g \in Tags |->
                        IF \E n \in Names : cfg[n].repo = r /\ g \in SeqToSet(h[n])
                        THEN "complete" ELSE "absent"]],
        !.current = [n \in Names |-> <<Head(h[n])>>],
        !.history = h,
        !.saved   = [n \in Names |-> [current |-> <<Head(h[n])>>, history |-> h[n]]]]

InitRollback ==
    /\ cfg \in UpdateCallConfigs
    /\ \E h \in [Names -> {<<"v1">>, <<"v2", "v1">>}] : um = Installed(h)
    /\ InitRunning(0, "upd")

NextRollback ==
    \/ \E t \in ClientSlots, n \in Names, g \in Tags \cup {""} :
          RollbackProcess(t, n, g)
    \/ \E t \in ClientSlots : U_Set(t)
    \/ \E t \in ClientSlots : P_Begin(t)
    \/ \E t \in ClientSlots : P_Fetch(t)

SpecRollback == InitRollback /\ [][NextRollback]_vars

\* one client updates, two clients watch
WatchSlots == {-2, Coord}

InitWatch ==
    /\ cfg \in UpdateCallConfigs
    /\ um = NoUpdates
    /\ instances = [n \in Names |-> <<>>]
    /\ inst = [i \in Ids |-> NoInst]
    /\ child = [i \in Ids |-> "none"]
    /\ termReq = {}
    /\ nextId = 1
    /\ nextPort = BasePort
    /\ extPorts = {}
    /\ cancelled = FALSE
    /\ ops = 0
    /\ crashes = 0
    /\ th = [t \in Threads |->
               IF t = -1 THEN [IdleThread EXCEPT !.kind = "upd"]
               ELSE IF t \in WatchSlots THEN [IdleThread EXCEPT !.kind = "watch"]
               ELSE IdleThread]

\* the steps of the update goroutine
PipelineStep == U_Set(-1) \/ P_Begin(-1) \/ P_Fetch(-1)

NextWatch ==
    \/ \E n \in Names : W_Update(-1, n)
    \/ PipelineStep
    \/ \E t \in WatchSlots, n \in Names : W_Subscribe(t, n)
    \/ \E t \in WatchSlots : W_Select(t)
    \/ \E t \in WatchSlots : W_Cleanup(t)

\* the Go scheduler runs the update goroutine, and a stream whose channel
\* holds a frame receives it; the client need never cancel
SpecWatch ==
    /\ InitWatch /\ [][NextWatch]_vars
    /\ WF_vars(PipelineStep)
    /\ \A t \in WatchSlots :
          WF_vars(th[t].kind = "watch" /\ th[t].pc = "w_wait" /\ W_Frame(t)
                  /\ UNCHANGED <<cfg, instances, inst, child, termReq, nextId,
                                 nextPort, extPorts, cancelled, ops, crashes>>)

\* start calls that fail: A runs one instance started from its release v1;
\* the binaries directory of B holds v1, or nothing, or v1 and a v2 whose
\* download broke off; the .env file of B exists or not; the ports after the
\* cursor are free or held by other processes
Unknown == "Z"

StartConfigs ==
    {[n \in Names |-> IF n = "A"
                      THEN [max |-> 1, auto |-> TRUE, env |-> TRUE, repo |-> "owner/R"]
                      ELSE [max |-> 1, auto |-> FALSE, env |-> e,
                            repo |-> "owner/S"]] :
        e \in BOOLEAN}

BinariesOfB ==
    {[g \in Tags |-> IF g = "v1" THEN "complete" ELSE "absent"],
     [g \in Tags |-> "absent"],
     [g \in Tags |-> IF g = "v1" THEN "complete" ELSE "partial"]}

InitStart ==
    /\ cfg \in StartConfigs
    /\ \E f \in BinariesOfB :
          um = [NoUpdates EXCEPT
                   !.files["owner/S"] = f,
                   !.current["B"] = IF f["v1"] = "absent" THEN <<>> ELSE <<"v1">>,
                   !.history["B"] = IF f["v1"] = "absent" THEN <<>> ELSE <<"v1">>,
                   !.saved["B"] = IF f["v1"] = "absent"
                                  THEN [current |-> <<>>, history |-> <<>>]
                                  ELSE [current |-> <<"v1">>, history |-> <<"v1">>]]
    /\ instances = [n \in Names |-> IF n = "A" THEN <<1>> ELSE <<>>]
    /\ inst = [i \in Ids |-> IF i = 1
                             THEN [name |-> "A", port |-> BasePort,
                                   status |-> "running", bin |-> "v1"]
                             ELSE NoInst]
    /\ child = [i \in Ids |-> IF i = 1 THEN "alive" ELSE "none"]
    /\ termReq = {}
    /\ nextId = 2
    /\ nextPort = BasePort + 1
    /\ extPorts \in {{}, (BasePort + 1)..(BasePort + ProbeAttempts)}
    /\ cancelled = FALSE
    /\ ops = 0
    /\ crashes = 0
    /\ th = [t \in Threads |->
               IF t \in ClientSlots THEN [IdleThread EXCEPT !.kind = "api"]
               ELSE IF t = MonOf(1)
               THEN [IdleThread EXCEPT !.kind = "mon", !.pc = "m_wait",
                                       !.name = "A", !.req = 1]
               ELSE IdleThread]

NextStart ==
    \/ \E t \in ClientSlots, n \in Names \cup {Unknown} : ApiStart(t, n)
    \/ \E t \in ClientSlots : ApiReturn(t)
    \/ \E t \in Threads : StartProcess(t)
    \/ \E i \in Ids : monitorProcess(i)
    \/ \E i \in Ids : ChildCrash(i)

SpecStart == InitStart /\ [][NextStart]_vars

\* calls through the load balancer: up to two routes, each with one or two
\* literal patterns and one target process; A runs one instance, B none
MaxRoutes == 2
Patterns == {<<"a">>, <<"b">>, <<"a", "b">>}
MethodNames == {<<"a">>, <<"b">>, <<"a", "b">>, <<"b", "a">>, <<"c">>}

RouteSet ==
    {[methods |-> ms, target |-> <<n>>, strategy |-> "primary"] :
        ms \in {<<p>> : p \in Patterns} \cup
               {<<p, q>> : p \in Patterns, q \in Patterns},
        n \in Names}

InitRoute ==
    /\ cfg \in UpdateCallConfigs
    /\ \E len \in 0..MaxRoutes : \E rs \in [1..len -> RouteSet] :
          um = [NoUpdates EXCEPT !.routes = rs]
    /\ InitRunning(1, "lb")

NextRoute ==
    \/ \E m \in MethodNames : LB_Call(-1, m)
    \/ LB_Next(-1)

SpecRoute == InitRoute /\ [][NextRoute]_vars

\* A runs v1 with or without a recorded version; the poller polls the names,
\* each poll on a slot of its own that carries the update it triggers, and
\* a client may call UpdateProcess; the pipeline of the first slot is
\* followed to its end
InitPoll ==
    /\ cfg \in UpdateConfigs
    /\ um \in {NoUpdates, NoVersions}
    /\ \E k \in 0..1 : InitRunning(k, "upd")

NextPoll ==
    \/ \E t \in ClientSlots, n \in Names, g \in Tags, o \in {"ok", "error"} :
          K_Check(t, n, g, o)
    \/ \E t \in ClientSlots : K_Update(t)
    \/ \E n \in Names, g \in Tags : U_Check(-2, n, g, TRUE)
    \/ \E t \in ClientSlots : U_Set(t)
    \/ performUpdate(-1)
    \/ \E t \in Threads : StartProcess(t)
    \/ \E t \in Threads : forceKillProcess(t)
    \/ \E t \in Threads : StopProcessGracefully(t)
    \/ \E i \in Ids : M_Wait(i) \/ M_Remove(i) \/ M_Check(i)
    \/ \E i \in Ids : ChildObey(i)

SpecPoll == InitPoll /\ [][NextPoll]_vars

\* one ScaleProcess call for A, which runs up to MaxIds instances; no other
\* call runs and no child exits on its own
InitScale ==
    /\ cfg \in RestartConfigs
    /\ um = NoUpdates
    /\ \E k \in 0..MaxIds : k <= cfg["A"].max /\ InitRunning(k, "sc")

NextScale ==
    \/ \E g \in 0..MaxIds : S_Begin(-1, "A", g)
    \/ ScaleProcess(-1)
    \/ \E t \in Threads : StartProcess(t)
    \/ \E t \in Threads : forceKillProcess(t)
    \/ \E t \in Threads : StopProcessGracefully(t)
    \/ \E i \in Ids : monitorProcess(i)
    \/ \E i \in Ids : ChildObey(i)

SpecScale == InitScale /\ [][NextScale]_vars

\* supervisors boot on one machine at any time, run, shut down or abort
InitSingleton == InitWatch

NextSingleton ==
    \/ \E p \in Pids : L_Open(p)
    \/ \E p \in Pids : L_Read(p)
    \/ \E p \in Pids : L_Kill(p)
    \/ \E p \in Pids : L_Remove(p)
    \/ \E p \in Pids : L_Retry(p)
    \/ \E p \in Pids : L_Write(p)
    \/ \E p \in Pids : L_Fatal(p)
    \/ \E p \in Pids : L_Close(p)
    \/ \E p \in Pids : L_Unlink(p)

SpecSingleton == InitSingleton /\ [][NextSingleton]_vars

\* the update of A is running; statuses are broadcast for it while two
\* streams watch it, receive, and are cancelled
InitBroadcast == InitWatch

NextBroadcast ==
    \/ \E s \in {"downloading", "completed"} : Broadcast("A", s)
    \/ \E t \in WatchSlots : W_Subscribe(t, "A")
    \/ \E t \in WatchSlots : W_Select(t)
    \/ \E t \in WatchSlots : W_Cleanup(t)

SpecBroadcast == InitBroadcast /\ [][NextBroadcast]_vars

\* two round_robin routes to A, which runs two instances; two calls select
\* concurrently; NewBalancer stores its counters under keys that
\* selectBackend never reads, so every route starts without a counter
RoundRobinRoute == [methods |-> <<<<"a">>>>, target |-> <<"A">>, strategy |-> "round_robin"]

InitRoundRobin ==
    /\ cfg \in UpdateCallConfigs
    /\ \E len \in 1..MaxRoutes :
          um = [NoUpdates EXCEPT !.routes = [k \in 1..len |-> RoundRobinRoute],
                                 !.counters = [k \in 1..len |-> 0],
                                 !.picks = [k \in 1..len |-> <<>>]]
    /\ InitRunning(2, "rr")

NextRoundRobin ==
    \/ \E t \in ClientSlots, k \in 1..MaxRoutes : RR_Call(t, k)
    \/ \E t \in ClientSlots : selectBackend(t)

SpecRoundRobin == InitRoundRobin /\ [][NextRoundRobin]_vars

\* update calls when the release v2 lists no asset, only a .zip, a .zip and
\* then the .exe, or only the .exe
AssetLists == {<<>>, <<ZipAsset>>, <<ZipAsset, ExeAsset>>, <<ExeAsset>>}

InitAssets ==
    /\ cfg \in UpdateCallConfigs
    /\ \E a \in AssetLists : um = [NoUpdates EXCEPT !.releases["v2"] = a]
    /\ InitRunning(0, "upd")

SpecAssets == InitAssets /\ [][NextUpdateCalls]_vars

\* one client updates A, which runs one instance or none, and a child may
\* exit on its own at any time, also during the warm-up wait
InitWarmup ==
    /\ cfg \in UpdateConfigs
    /\ um = NoUpdates
    /\ \E k \in 0..1 : InitRunning(k, "upd")

NextWarmup ==
    \/ \E g \in Tags, f \in BOOLEAN : U_Check(-1, "A", g, f)
    \/ U_Set(-1)
    \/ performUpdate(-1)
    \/ \E t \in Threads : StartProcess(t)
    \/ \E t \in Threads : forceKillProcess(t)
    \/ \E t \in Threads : StopProcessGracefully(t)
    \/ \E i \in Ids : M_Wait(i) \/ M_Remove(i) \/ M_Check(i)
    \/ \E i \in Ids : ChildObey(i)
    \/ \E i \in Ids : ChildCrash(i)

SpecWarmup == InitWarmup /\ [][NextWarmup]_vars

\* hot restart with the Go scheduler running every monitor goroutine: a
\* monitor whose Wait() can return does return, and it goes on to the removal
SpecRestartFair ==
    /\ InitRestart /\ [][NextRestart]_vars
    /\ \A i \in Ids : WF_vars(monitorProcess(i))

\* the Go scheduler runs the goroutine of every accepted update: the
\* pipeline and the Process Manager calls it makes take their next step
UpdateStep(t) ==
    \/ U_Set(t) \/ performUpdate(t)
    \/ StartProcess(t) \/ forceKillProcess(t) \/ StopProcessGracefully(t)

SpecUpdateFair ==
    /\ InitUpdate /\ [][NextUpdate]_vars
    /\ \A t \in ClientSlots : WF_vars(UpdateStep(t))

\* two goroutines call SetCurrentVersion; no version is recorded at first,
\* or v1 is
InitSetCurrent ==
    /\ cfg \in UpdateCallConfigs
    /\ um \in {NoVersions, NoUpdates}
    /\ InitRunning(0, "ver")

NextSetCurrent ==
    \/ \E t \in ClientSlots, n \in Names, v \in Tags : SC_Load(t, n, v)
    \/ \E t \in ClientSlots : SetCurrentSteps(t)

SpecSetCurrent == InitSetCurrent /\ [][NextSetCurrent]_vars

\* ------------------------------------------------------------ properties
Running(i) == inst[i].status = "running"

\* C1: any two distinct running instances, of the same or of different
\* managed names, have different allocated ports, also when two start calls
\* run concurrently and probe from the same cursor value.
C1_RunningPortsDiffer ==
    \A i \in Ids, j \in Ids :
        (i # j /\ Running(i) /\ Running(j)) => inst[i].port # inst[j].port

\* C2: for every managed name, under every interleaving of start calls, the
\* number of instances with status=running never exceeds max_instances.
C2_RunningWithinMax ==
    \A n \in Names : Cardinality(GetRunningInstances(n)) <= cfg[n].max

\* performUpdate is running for the pipeline of slot t
PipelinePcs ==
    {"p_begin", "p_fetch", "p_lock", "p_stat", "p_download", "p_start",
     "p_started", "p_stop", "p_version"}

InFlight(n) ==
    {t \in ClientSlots : th[t].kind = "upd" /\ th[t].name = n
                          /\ th[t].pc \in PipelinePcs}

\* C3: for every managed name at most one update pipeline is in flight at
\* any instant: of concurrent update calls for one name only one is accepted.
C3_OnePipelinePerName ==
    \A n \in Names : Cardinality(InFlight(n)) <= 1

\* the pipelines inside the existence check and download step of repository r
InsideDownloadStep(r) ==
    {t \in ClientSlots : th[t].kind = "upd" /\ th[t].pc \in {"p_stat", "p_download"}
                          /\ GetProcessRepository(th[t].name) = r}

\* C4: for every repository at most one pipeline is inside the existence
\* check and download step, across the names that share the repository; the
\* pipeline inside holds the repository mutex during the whole step, and
\* the mutex is free again once the step ended, in success or in failure.
C4_RepoLockExclusive ==
    \A r \in Repos :
        /\ Cardinality(InsideDownloadStep(r)) <= 1
        /\ \A t \in InsideDownloadStep(r) : um.repoLocks[getRepoLock(r)] = t
        /\ InsideDownloadStep(r) = {} => um.repoLocks[getRepoLock(r)] = 0

\* C4 witness: a pipeline downloads while the pipeline of another name of the
\* same repository waits for the mutex
C4_Witness ==
    \E t \in ClientSlots, u \in ClientSlots :
        /\ th[t].kind = "upd" /\ th[t].pc = "p_download"
        /\ th[u].kind = "upd" /\ th[u].pc = "p_lock"
        /\ th[t].name # th[u].name
        /\ GetProcessRepository(th[t].name) = GetProcessRepository(th[u].name)

\* the pipeline of slot t has ended
Ended(t) == th[t].kind = "upd" /\ th[t].pc \in {"p_done", "p_failed"}

\* the pipeline of slot t met a failure of the network
NetworkFault(t) == th[t].ret \in {"fetch_failed", "download_failed"}

\* C5: update(A, t) and update(B, t) for two names of one repository, the
\* artifact of t not on disk, no network failure: exactly one download is
\* performed, the other pipeline skips it, and both reach stage completed.
C5_OneDownloadBothComplete ==
    (/\ Ended(-1) /\ Ended(-2)
     /\ th[-1].name # th[-2].name
     /\ th[-1].tag = "v2" /\ th[-2].tag = "v2"
     /\ ~NetworkFault(-1) /\ ~NetworkFault(-2))
    => /\ um.downloads = 1
       /\ th[-1].pc = "p_done" /\ th[-2].pc = "p_done"
       /\ \A n \in Names : um.updates[n].stage = "completed"

\* C6: start(name) followed by stop(name, id) on the returned id leaves the
\* instance list of name as it was before the start, and the list stays so
\* (no further instance appears), whatever auto_restart is.
C6_StartStopRestoresList ==
    LET r == th[-1] IN
    (r.kind = "rt" /\ r.pc = "rt_stopped" /\ r.call = "none" /\ r.ret = "ok") =>
        instances[r.name] = r.O

\* the hot restart is the only call issued and no child exited on its own
Quiet == crashes = 0 /\ th[-2].pc = "idle" /\ ops <= 1

InRestart(r) ==
    r.kind = "hr" /\ r.pc \in {"hr_provision", "hr_started", "hr_gate",
                               "hr_retire", "hr_done"}

\* C7: for a RestartProcess(name, "") that succeeds with no concurrent
\* operation on name, every instance of O and of N is listed together once
\* the gate has passed, no instance of O is stopped before all of N were
\* observed healthy, at every instant at least one instance of name is
\* running, and the final instance list is exactly N.
C7_HotRestartReplaces ==
    LET r == th[-1] IN
    (InRestart(r) /\ r.req = 0 /\ Quiet) =>
        /\ GetRunningInstances(r.name) # {}
        /\ r.pc \in {"hr_provision", "hr_started", "hr_gate"} =>
              \A o \in SeqToSet(r.O) :
                  o \in SeqToSet(instances[r.name]) /\ Running(o)
        /\ (r.pc = "hr_retire" /\ r.i = 0 /\ r.call = "none") =>
              SeqToSet(r.O) \cup SeqToSet(r.N) \subseteq SeqToSet(instances[r.name])
        /\ (r.pc = "hr_done" /\ \A o \in SeqToSet(r.O) : th[MonOf(o)].pc = "done") =>
              instances[r.name] = r.N

\* C8: hot-restart provisioning is not rejected by the max_instances check,
\* also when the snapshot O already holds max_instances running instances.
C8_ProvisionNotRejected ==
    LET r == th[-1] IN
    ~(r.kind = "hr" /\ r.pc = "hr_started" /\ r.call = "none"
        /\ r.ret = "max_instances")

\* C9 as stated: between the provision step and the retire step the number
\* of instances of name never exceeds |O|+k, and after the retire step at
\* most max_instances instances exist.
C9_CountBounds(r) ==
    /\ r.pc \in {"hr_provision", "hr_started", "hr_gate"} =>
          Len(instances[r.name]) <= Len(r.O) + NumInstances(r.O, r.req)
    /\ r.pc = "hr_done" => Len(instances[r.name]) <= cfg[r.name].max

C10_NoChildAfterShutdown ==
    ShutdownReturned => \A i \in Ids : child[i] # "alive"

\* C11: whenever a current version is present it is the first history
\* entry, also after a setCurrent of a tag that is already in the history.
C11_CurrentIsHistoryHead ==
    \A n \in Names :
        um.current[n] # <<>> =>
            um.history[n] # <<>> /\ um.current[n] = <<Head(um.history[n])>>

\* the history of n holds the newest releases set for n, newest first, at
\* most HistoryLimit of them
NewestFirst(h) ==
    h # <<>> =>
        /\ Len(h) = (IF Head(h) < HistoryLimit THEN Head(h) ELSE HistoryLimit)
        /\ \A j \in 1..Len(h) : h[j] = Head(h) - j + 1

\* C20: setCurrent(name, v) followed by current(name) returns v; the
\* history is ordered newest first, and after 11 setCurrent calls with
\* pairwise distinct tags it has exactly 10 entries and the tag set first is
\* absent.
C20_SetCurrentThenHistory ==
    LET r == th[-1] IN
    (r.kind = "ver" /\ r.pc = "v_set") =>
        /\ GetCurrentVersion(r.name) = <<r.tag>>
        /\ r.tag \in SeqToSet(um.history[r.name])
        /\ \A n \in Names : NewestFirst(um.history[n])

\* C20 witness: the eleventh distinct release of a name was just set
C20_Witness ==
    /\ th[-1].kind = "ver" /\ th[-1].pc = "v_set"
    /\ th[-1].tag = HistoryLimit + 1
    /\ Len(um.history[th[-1].name]) = HistoryLimit
    /\ 1 \notin SeqToSet(um.history[th[-1].name])

\* a client slot that made a rollback call
IsRollback(t) == th[t].kind = "upd" /\ th[t].N # <<>>

\* C12: a rollback of a name whose history has fewer than 2 entries fails
\* without starting an update, whether or not an explicit version is given
C12_RollbackNeedsTwoEntries ==
    \A t \in ClientSlots :
        (IsRollback(t) /\ Len(th[t].O) < 2) =>
            th[t].pc \in {"rb_failed", "rb_update", "u_rejected"}

\* C13: every WatchUpdate stream subscribed before its update finishes
\* eventually receives a frame whose status is completed or failed and then
\* terminates
C13_WatcherGetsFinalFrame ==
    \A t \in WatchSlots :
        [](th[t].pc = "w_wait" /\ th[t].arg = 1 =>
               <>(th[t].pc = "w_done" /\ th[t].ret \in Terminal))

\* the update call of slot t: made while the status of the name is not
\* completed it returns the error and changes no status, made otherwise it is
\* accepted; a rejected call does nothing more
C14_Call(t) ==
    /\ (th[t].pc = "idle" /\ th'[t].pc # "idle") =>
          IF ~um.updates[th'[t].name].completed
          THEN th'[t].pc = "u_rejected" /\ th'[t].ret = "in_progress" /\ um' = um
          ELSE th'[t].pc = "u_set" /\ um' = um
    /\ th[t].pc = "u_rejected" => th'[t] = th[t]

\* C14: update(name, ...) issued while an UpdateStatus with completed=false
\* exists for name returns an error at once, starts no pipeline and leaves
\* that status unchanged; once the status has completed=true a new update of
\* name is accepted
C14_RejectedWhileInProgress == [][\A t \in ClientSlots : C14_Call(t)]_vars

\* an update of a name was rejected while the pipeline of the other call
\* went on to its next stages
C14_Witness ==
    \E t, u \in ClientSlots :
        /\ th[t].pc = "u_rejected" /\ th[u].pc = "p_stat"
        /\ th[u].name = th[t].name
        /\ um.updates[th[t].name] = [stage |-> "downloading", completed |-> FALSE]

\* what an update may not touch when it is a no-op: the instances, the files
\* of the binaries directory and the version record
NoOpFrame ==
    /\ instances' = instances /\ inst' = inst /\ child' = child
    /\ um'.files = um.files /\ um'.downloads = um.downloads
    /\ um'.current = um.current /\ um'.history = um.history

\* the steps of the pipeline of slot t for a target that is the current
\* version, without force
C15_Pipeline(t) ==
    LET n == th[t].name IN
    /\ (th[t].pc = "p_fetch" /\ th'[t] # th[t] /\ ~th[t].force
        /\ GetCurrentVersion(n) = <<Resolve(th[t].tag)>>) =>
          \/ th'[t].pc = "p_failed" /\ th'[t].ret = "fetch_failed" /\ NoOpFrame
          \/ /\ th'[t].pc = "p_done"
             /\ um'.updates[n] = [stage |-> "completed", completed |-> TRUE]
             /\ NoOpFrame
    /\ (th[t].pc \in {"u_set", "p_begin"} /\ th'[t] # th[t]) => NoOpFrame
    /\ (th[t].pc = "p_done" /\ th[t].ret = "noop") => th'[t] = th[t]

\* C15: update(name, t, force=false) when the current tag equals the resolved
\* tag t ends with stage completed and completed=true, starts and stops no
\* instance, downloads and writes no file and leaves the version record
C15_CurrentVersionIsNoOp == [][\A t \in ClientSlots : C15_Pipeline(t)]_vars

\* an update to the current version has ended while the update of the other
\* name was starting its new instance
C15_Witness ==
    \E t, u \in ClientSlots :
        /\ th[t].pc = "p_done" /\ th[t].ret = "noop"
        /\ um.updates[th[t].name] = [stage |-> "completed", completed |-> TRUE]
        /\ th[u].pc = "p_started"

\* the ports a probe from startPort tries
ProbeRange(startPort) == startPort..(startPort + ProbeAttempts - 1)

\* the steps of the start call of thread t up to the probe change neither the
\* instance lists, the cursor nor the version record, and the error of a
\* rejection names its cause
C16_Start(t) ==
    /\ (th[t].call = "start" /\ th'[t] # th[t]
        /\ th[t].cpc \in {"sp_check", "sp_cursor", "sp_probe"}) =>
          /\ instances' = instances /\ inst' = inst
          /\ nextPort' = nextPort
          /\ um' = um
    /\ (th[t].call = "start" /\ th'[t].call = "none"
        /\ th'[t].ret = "max_instances") =>
          /\ th[t].cpc = "sp_check"
          /\ Cardinality(GetRunningInstances(th[t].name)) >= cfg[th[t].name].max
    /\ (th[t].call = "start" /\ th'[t].call = "none"
        /\ th'[t].ret = "port_exhausted") =>
          /\ th[t].cpc = "sp_probe"
          /\ ProbeRange(th[t].startPort) \subseteq
                 extPorts \cup ProbeHeld \cup ChildPorts

\* C16: a start rejected because max_instances instances are running, or
\* because the 10 ports from the cursor are occupied, returns the error of
\* that cause and leaves the instance list, the port cursor and the version
\* record as they were
C16_RejectedStartNoEffect == [][\A t \in Threads : C16_Start(t)]_vars

\* one start was rejected for max_instances and one for port exhaustion
C16_Witness ==
    /\ th[-1].call = "none" /\ th[-1].ret = "max_instances"
    /\ th[-2].call = "none" /\ th[-2].ret = "port_exhausted"
    /\ instances = [n \in Names |-> IF n = "A" THEN <<1>> ELSE <<>>]
    /\ nextPort = BasePort + 1

\* a listed instance was spawned and is past the starting status
Spawned(i) == child[i] # "none" /\ inst[i].status # "starting"

\* only the last step of a start call that returns no error adds an instance
C17_Start(t) ==
    /\ (th[t].call = "start" /\ th'[t] # th[t] /\ instances' # instances) =>
          th'[t].call = "none" /\ th'[t].ret = "ok"
    /\ (th[t].call = "start" /\ th'[t].call = "none" /\ th'[t].ret # "ok") =>
          instances' = instances

\* C17: a start that returns an error added no instance at any point of the
\* call, and every listed instance was spawned
C17_FailedStartAddsNothing ==
    /\ [](\A n \in Names : \A i \in SeqToSet(instances[n]) : Spawned(i))
    /\ [][\A t \in Threads : C17_Start(t)]_vars

\* the starts of B failed after the probe, one for the binary that did not
\* start, and B has no instance
C17_Witness ==
    /\ th[-1].call = "none" /\ th[-1].ret = "spawn_failed" /\ th[-1].name = "B"
    /\ th[-2].call = "none" /\ th[-2].ret = "ok" /\ th[-2].name = "B"
    /\ \A i \in SeqToSet(instances["B"]) : Spawned(i)
    /\ Len(instances["B"]) = 1

\* the return of the graceful stop of thread t, for an instance it had found
\* in the list: the instance is out of the list with status stopped and the
\* caller is told no error
C18_Return(t) ==
    (th[t].call = "gstop" /\ th[t].cpc # "g_find" /\ th'[t].call = "none") =>
        /\ th[t].arg \notin SeqToSet(instances'[th[t].name])
        /\ inst'[th[t].arg].status = StoppedStatus
        /\ th'[t].ret = "ok"

\* C18: whenever stopGracefully returns for an instance that was in the list,
\* after a graceful exit, a failed termination signal or a timeout promoted
\* to a kill, the instance is absent from the list with status stopped and
\* no failure is reported
C18_GracefulStopAlwaysRemoves == [][\A t \in Threads : C18_Return(t)]_vars

\* the monitor of instance i, whose child exited on its own, at the restart
\* decision: after a non-zero exit the instance is failed and out of the list
\* and StartProcess is called when auto_restart is set; after a zero exit it
\* is stopped and out of the list and nothing is started
C19_Monitor(i) ==
    LET m == MonOf(i)
        n == inst[i].name IN
    (th[m].pc = "m_check" /\ th'[m] # th[m]) =>
        /\ child[i] = "exitErr" =>
              /\ inst[i].status = "failed"
              /\ i \notin SeqToSet(instances[n])
              /\ IF cfg[n].auto
                 THEN th'[m].call = "start" /\ th'[m].name = n
                 ELSE th'[m] = DoneMonitor
        /\ child[i] = "exit0" =>
              /\ inst[i].status = "stopped"
              /\ i \notin SeqToSet(instances[n])
              /\ th'[m] = DoneMonitor

\* C19: an instance that exits on its own with a non-zero code becomes
\* failed, leaves the list and is restarted once when auto_restart is set;
\* with code zero it becomes stopped, leaves the list and is not restarted
C19_OwnExitHandled == [][\A i \in Ids : C19_Monitor(i)]_vars

\* no thread other than t is inside a start call
NoOtherStart(t) == \A u \in Threads \ {t} : th[u].call # "start"

\* the probe and the cursor write of the start call of thread t while no
\* other start runs: the adopted port is in the 10 ports from the cursor, is
\* not occupied, every port below it is occupied, and the cursor becomes the
\* port after it
C21_Start(t) ==
    /\ (th[t].call = "start" /\ th[t].cpc = "sp_probe" /\ th'[t].cpc = "sp_close"
        /\ NoOtherStart(t) /\ th[t].startPort = nextPort) =>
          LET p == th'[t].port IN
          /\ p \in ProbeRange(nextPort)
          /\ p \notin extPorts
          /\ \A q \in nextPort..(p - 1) : q \in extPorts \cup ChildPorts
    /\ (th[t].call = "start" /\ th[t].cpc = "sp_close" /\ th'[t].cpc = "sp_spawn"
        /\ NoOtherStart(t)) =>
          nextPort' = th[t].port + 1

\* C21: with no concurrent start, a successful start adopts the lowest free
\* port p of the 10 ports from the cursor and sets the cursor to p + 1
C21_LowestFreePort == [][\A t \in Threads : C21_Start(t)]_vars

\* the cursor was 5001 with 5001 and 5002 occupied: the first start was given
\* port 5003 and the cursor is 5004
C21_Witness ==
    \E t \in ClientSlots :
        /\ th[t].call = "start" /\ th[t].cpc = "sp_spawn" /\ NoOtherStart(t)
        /\ extPorts = {BasePort, BasePort + 1}
        /\ nextId = 1
        /\ th[t].startPort = BasePort
        /\ th[t].port = BasePort + 2
        /\ nextPort = BasePort + 3

\* the routes of the balancer that match a method
Matching(method) ==
    {k \in 1..Len(um.routes) :
        \E p \in SeqToSet(um.routes[k].methods) : MatchString(p, method)}

\* C22: the load balancer forwards a call using the first route in
\* declaration order with a pattern that matches the method, also when later
\* routes match; when no route matches the call is answered unimplemented
\* and no backend is contacted
C22_FirstRouteWins ==
    \A t \in ClientSlots :
        (th[t].kind = "lb" /\ th[t].pc = "lb_done") =>
            IF Matching(th[t].N) = {}
            THEN th[t].ret = "unimplemented" /\ th[t].port = 0
            ELSE /\ th[t].rid = SetMin(Matching(th[t].N))
                 /\ th[t].ret \in {"proxied", "unavailable"}
                 /\ th[t].ret = "proxied" =>
                       \E i \in SeqToSet(instances[um.routes[th[t].rid].target[1]]) :
                           inst[i].port = th[t].port

\* two routes match the method; the call went to the target of the first
C22_Witness ==
    /\ th[-1].kind = "lb" /\ th[-1].pc = "lb_done"
    /\ Matching(th[-1].N) = {1, 2}
    /\ um.routes[1].target = <<"A">> /\ um.routes[2].target = <<"B">>
    /\ th[-1].rid = 1 /\ th[-1].ret = "proxied" /\ th[-1].port = BasePort

\* a release that lists no .exe asset
NoExe(g) == \A k \in 1..Len(um.releases[g]) : um.releases[g][k].ext # ".exe"

\* the download step of the pipeline of slot t for a release without .exe
\* asset: it fails, no file is created, no instance is touched and the
\* pipeline has ended
C23_Download(t) ==
    /\ (th[t].pc = "p_download" /\ th'[t] # th[t] /\ NoExe(th[t].tag)) =>
          /\ th'[t].pc = "p_failed" /\ th'[t].ret = "no_asset"
          /\ um'.updates[th[t].name] = [stage |-> "failed", completed |-> TRUE]
          /\ um'.files = um.files
          /\ instances' = instances /\ inst' = inst /\ child' = child
    /\ th[t].pc = "p_failed" => th'[t] = th[t]

\* C23: a release with no .exe asset resolves to a Version with an empty
\* artifact URL, its download fails before any file is created, and the
\* pipeline that reaches the download with it ends failed and completed
\* without starting or stopping an instance
C23_NoAssetFailsUpdate == [][\A t \in ClientSlots : C23_Download(t)]_vars

\* the update of A to v2, whose release lists only a .zip, has failed at the
\* download and v2 has no file
C23_Witness ==
    \E t \in ClientSlots :
        /\ th[t].pc = "p_failed" /\ th[t].ret = "no_asset" /\ th[t].tag = "v2"
        /\ um.releases["v2"] = <<ZipAsset>>
        /\ um.files[cfg[th[t].name].repo]["v2"] = "absent"
        /\ um.updates[th[t].name] = [stage |-> "failed", completed |-> TRUE]


\* the poll of the health gate that passes: the snapshot the poll read lists
\* every new id with status running
C24_Pass ==
    (th[-1].pc = "hr_gate" /\ th'[-1].pc = "hr_retire") =>
        \A k \in 1..Len(th[-1].N) :
            /\ th[-1].N[k] \in SeqToSet(instances["A"])
            /\ inst[th[-1].N[k]].status = "running"
            /\ child[th[-1].N[k]] # "none"

\* the request stops an old instance only from the retire loop, which is
\* entered from a passing poll
C24_Retire ==
    /\ (th[-1].call # "gstop" /\ th'[-1].call = "gstop") => th[-1].pc = "hr_retire"
    /\ (th[-1].pc # "hr_retire" /\ th'[-1].pc = "hr_retire") => th[-1].pc = "hr_gate"

\* the request that fails after the tenth poll
GateFailed(r) == r.pc = "hr_failed" /\ r.retry = MaxRetries - 1

\* the return of the request whose ten polls all failed: every new id is out
\* of the list and not running, and no old instance was signalled or killed
C24_Fail ==
    (th[-1].pc = "hr_rollback" /\ GateFailed(th'[-1])) =>
        /\ \A k \in 1..Len(th[-1].N) :
              /\ th[-1].N[k] \notin SeqToSet(instances'["A"])
              /\ inst'[th[-1].N[k]].status \in {"stopped", "failed"}
        /\ \A o \in SeqToSet(th[-1].O) : child[o] # "killed" /\ o \notin termReq

\* C24: RestartProcess stops an old instance only after one status snapshot
\* listing every new id with a pid and status running; when none of the ten
\* polls yields such a snapshot every new id is stopped and out of the list,
\* the request fails and no old instance has been stopped
C24_GateBeforeRetire == [][C24_Pass /\ C24_Retire /\ C24_Fail]_vars

\* the first two parts of C24, which hold
C24_PassAndRetire == [][C24_Pass /\ C24_Retire]_vars


\* the return of the request whose provisioning loop had a failed start:
\* every new instance started before it is out of the list and not running
C25_NewGone ==
    (th[-1].pc = "hr_rollback" /\ th'[-1].pc = "hr_failed" /\ th[-1].retry = 0) =>
        \A k \in 1..Len(th[-1].N) :
            /\ th[-1].N[k] \notin SeqToSet(instances'["A"])
            /\ inst'[th[-1].N[k]].status \in {"stopped", "failed"}

\* at that return every old instance whose child did not exit on its own is
\* listed and running
C25_OldKept ==
    (th[-1].pc = "hr_rollback" /\ th'[-1].pc = "hr_failed" /\ th[-1].retry = 0) =>
        \A o \in SeqToSet(th[-1].O) :
            child[o] = "alive" =>
                o \in SeqToSet(instances'["A"]) /\ inst'[o].status = "running"

\* C25: when a start of the provisioning loop fails, the new instances started
\* earlier in the request are stopped and out of the list when the request
\* returns, and the instances of the snapshot are still listed and running
C25_ProvisionRollback == [][C25_NewGone /\ C25_OldKept]_vars

\* the second part of C25, which holds
C25_SnapshotKept == [][C25_OldKept]_vars


\* the step of pipeline t that ends in completed after a start: the instance
\* the pipeline started runs the binary of the target tag, and the target tag
\* is the current version
C26_Complete(t) ==
    (th[t].kind = "upd" /\ th[t].pc = "p_version" /\ th'[t].pc = "p_done") =>
        /\ inst[th[t].N[1]].bin = th[t].tag
        /\ um'.current[th[t].name] = <<th[t].tag>>

\* C26: when an update or a rollback to tag t reaches completed, the instance
\* that pipeline started was launched from the artifact of t, also when an
\* artifact of a greater version is in the binaries directory, and the
\* current version of the name is t
C26_LaunchedFromTarget == [][\A t \in ClientSlots : C26_Complete(t)]_vars

\* the second part of C26, which holds
C26_CurrentIsTarget ==
    [][\A t \in ClientSlots :
          (th[t].kind = "upd" /\ th[t].pc = "p_version" /\ th'[t].pc = "p_done") =>
              um'.current[th[t].name] = <<th[t].tag>>]_vars


\* the pipeline of thread t skips the download: the file of its tag in the
\* binaries directory is the result of a download that ran to completion
C27_Skip(t) ==
    (th[t].kind = "upd" /\ th[t].pc = "p_stat" /\ th'[t].pc = "p_start") =>
        um.files[GetProcessRepository(th[t].name)][th[t].tag] = "complete"

\* the start of pipeline t launches no instance from a file whose download
\* broke off
C27_Launch(t) ==
    (th[t].kind = "upd" /\ th[t].cpc = "sp_spawn" /\ th'[t].cpc = "sp_add") =>
        um.files[GetProcessRepository(th[t].name)][inst'[th'[t].rid].bin] = "complete"

\* C27: an update skips the download only when an earlier download of the
\* artifact to that path ran to completion, and a download that failed after
\* creating the file never lets a later update launch the partial file
C27_SkipOnlyComplete == [][\A t \in ClientSlots : C27_Skip(t) /\ C27_Launch(t)]_vars


\* the instance pipeline t started is in the snapshot of the list the
\* pipeline took when stopping_old began
NewInSnapshot(t) == th[t].N[1] \in SeqToSet(th[t].O)

\* pipeline t calls the graceful stop of an old instance, or ends as
\* completed, only when the instance it started was still listed at the
\* beginning of stopping_old
C28_Pipeline(t) ==
    /\ (th[t].kind = "upd" /\ th[t].pc = "p_stop" /\ th[t].call = "none"
          /\ th'[t].call = "gstop") => NewInSnapshot(t)
    /\ (th[t].kind = "upd" /\ th[t].pc = "p_version" /\ th'[t].pc = "p_done") =>
          NewInSnapshot(t)

\* C28: the update pipeline stops old instances only if the instance it
\* started is still listed and running when stopping_old begins; when that
\* instance exited during the warm-up wait no old instance is stopped and the
\* update does not end as completed
C28_StopsOldOnlyIfNewRuns == [][\A t \in ClientSlots : C28_Pipeline(t)]_vars


\* the ports the starts have adopted so far: those of the created instances
\* and those of the starts past the probe
AdoptedPorts ==
    {inst[i].port : i \in {j \in Ids : inst[j].status # "none"}}
        \cup {th[t].port : t \in {u \in Threads : th[u].cpc \in {"sp_spawn", "sp_add"}}}

\* C29: the port cursor never decreases, under every interleaving of
\* concurrent starts, and after each start it is greater than every port
\* adopted so far
C29_CursorMonotone ==
    [][/\ nextPort' >= nextPort
       /\ nextPort' # nextPort => \A p \in AdoptedPorts' : nextPort' > p]_vars


\* the statuses an instance ends in
FinalStatus == {"stopped", "failed"}

\* C30: once the status of an instance is stopped or failed it never changes
\* again, under every interleaving of stop, stopGracefully and the monitor of
\* the instance; a stopped instance is never re-marked failed
C30_FinalStatusIsFinal ==
    [][\A i \in Ids : inst[i].status \in FinalStatus =>
                          inst'[i].status = inst[i].status]_vars

\* the particular case of C30: a stopped instance is never marked failed,
\* the status on which the monitor restarts the process
C30_StoppedNeverFailed ==
    [][\A i \in Ids : inst[i].status = "stopped" => inst'[i].status # "failed"]_vars


\* instance i is in the list of its managed process
Listed(i) == \E n \in Names : i \in SeqToSet(instances[n])

\* an instance enters a list only as the new instance of a start, never after
\* it was removed
C31_NeverReAdded ==
    \A i \in Ids : (~Listed(i) /\ Listed(i)') => inst[i].status = "starting"

StageOrder ==
    <<"initializing", "fetching_version", "downloading", "starting_new",
      "stopping_old", "updating_version", "completed">>

StageIndex(stage) == CHOOSE k \in 1..Len(StageOrder) : StageOrder[k] = stage

\* a change of the stage of name n: to the next stage of the order, to failed
\* from a stage that is not final, or from fetching_version to completed
C32_Forward(n) ==
    LET s == um.updates[n].stage
        d == um'.updates[n].stage IN
    d # s =>
        \/ s = "none" /\ d = "initializing"
        \/ s \notin {"none", "completed", "failed"} /\ d = "failed"
        \/ s = "fetching_version" /\ d = "completed"
        \/ /\ s \notin {"none", "completed", "failed"} /\ d # "failed"
           /\ StageIndex(d) = StageIndex(s) + 1

\* the progress of name n stays within 0 to 100 and does not decrease, and
\* the completed flag of a status is set exactly in the stages completed and
\* failed
C32_Status(n) ==
    /\ um'.progress[n] >= um.progress[n]
    /\ um'.progress[n] \in 0..100
    /\ um'.updates[n].stage # "none" =>
          (um'.updates[n].completed <=> um'.updates[n].stage \in {"completed", "failed"})

UpdateOver(t) ==
    /\ th[t].pc \in {"p_done", "p_failed"}
    /\ um.updates[th[t].name].completed
    /\ um.updates[th[t].name].stage \in {"completed", "failed"}

\* C33: every accepted update eventually has completed=true with the stage
\* completed or failed, on every path through the pipeline, so that the name
\* accepts updates again
C33_UpdateEnds ==
    \A t \in ClientSlots :
        (th[t].kind = "upd" /\ th[t].pc = "u_set") ~> (UpdateOver(t) /\ ~InProgress(th[t].name))

\* both updates are over: one failed and the other went through all stages
C33_Witness ==
    /\ \A t \in ClientSlots : UpdateOver(t)
    /\ \E t \in ClientSlots : th[t].ret = "updated"
    /\ \E t \in ClientSlots : um.updates[th[t].name].stage = "failed"


\* the stops of the retire loop all succeeded: every old instance the loop
\* was to stop is stopped and out of the list
NoStopFailure(r) ==
    \A o \in SeqToSet(r.O) :
        Retires(o, r.req) =>
            o \notin SeqToSet(instances[r.name]) /\ inst[o].status = "stopped"

\* C34: after a successful RestartProcess with no concurrent operation and no
\* stop failure the name has as many instances as the snapshot O had, for
\* every instance_id of the request, also one that matches no instance of O
C34_CountRestored ==
    LET r == th[-1] IN
    (r.kind = "hr" /\ r.pc = "hr_done" /\ Quiet /\ NoStopFailure(r)) =>
        Len(instances[r.name]) = Len(r.O)

\* the same for the requests whose instance_id is empty or names an instance
\* of O, of a name without auto_restart, which holds
C34_KnownIdCountRestored ==
    LET r == th[-1] IN
    (r.kind = "hr" /\ r.pc = "hr_done" /\ Quiet /\ NoStopFailure(r)
        /\ r.req # NoSuchId /\ ~cfg[r.name].auto) =>
        Len(instances[r.name]) = Len(r.O)


\* every SetCurrentVersion call that was made has returned
AllSet == \A t \in ClientSlots : th[t].pc \in {"idle", "sc_done"}

NoDuplicate(h) == \A j, k \in 1..Len(h) : h[j] = h[k] => j = k

\* C35: concurrent setCurrent calls for a name leave what calls one after
\* another would: a history without a duplicate tag, of at most 10 entries,
\* that holds every tag that was set, and a persisted document equal to the
\* VersionInfo in memory
C35_SetCurrentSerial ==
    AllSet =>
        \A n \in Names :
            /\ NoDuplicate(um.history[n])
            /\ Len(um.history[n]) <= HistoryLimit
            /\ \A t \in ClientSlots :
                  (th[t].pc = "sc_done" /\ th[t].name = n) =>
                      th[t].tag \in SeqToSet(um.history[n])
            /\ um.saved[n] = [current |-> um.current[n], history |-> um.history[n]]

\* the part of C35 about the persisted document, which holds
C35_SavedIsMemory ==
    AllSet =>
        \A n \in Names :
            um.saved[n] = [current |-> um.current[n], history |-> um.history[n]]


\* the backends of the routes, the same at every selection
PoolOf(k) == getHealthyBackends(um.routes[k].target)

\* every window of as many consecutive selections as the route has backends
\* holds each backend once
EachOnce(k) ==
    LET n == Len(PoolOf(k))
        p == um.picks[k] IN
    \A j \in 1..(Len(p) - n + 1) :
        \A b \in SeqToSet(PoolOf(k)) :
            Cardinality({l \in j..(j + n - 1) : p[l] = b}) = 1

\* C36: on a round_robin route with a stable pool of n running backends any
\* n consecutive selections, also concurrent ones and the first ones after
\* startup, choose each backend exactly once, and the routes have separate
\* counters
C36_RoundRobinFair ==
    /\ \A k \in 1..Len(um.routes) : EachOnce(k)
    /\ \A j, k \in 1..Len(um.routes) :
          (j # k /\ um.counters[j] # 0) => um.counters[j] # um.counters[k]

\* the routes never share a counter, which holds
C36_SeparateCounters ==
    \A j, k \in 1..Len(um.routes) :
        (j # k /\ um.counters[j] # 0) => um.counters[j] # um.counters[k]


\* the frames of a sequence carry increasing serial numbers and each is the
\* frame broadcast under its number
Subsequence(g, s) ==
    /\ \A j \in 1..Len(g) : g[j].seq \in 1..Len(s) /\ s[g[j].seq] = g[j]
    /\ \A j \in 1..Len(g) - 1 : g[j].seq < g[j + 1].seq

\* C37 (part): the frames a WatchUpdate stream has sent to its client, and
\* those still pending in its channel, are in dispatch order a subsequence of
\* the statuses broadcast for its update id
C37_Delivered ==
    \A t \in WatchSlots :
        th[t].pc \in {"w_wait", "w_defer"} =>
            Subsequence(um.got[t] \o um.chans[t], um.sent[th[t].name])

\* C37 (part): a broadcast appends its frame to the channel of every
\* registered watcher of the id with fewer than 10 frames pending, drops it
\* for a watcher with 10 pending, and leaves the channel of a watcher that
\* has disconnected untouched
C37_Dispatch ==
    \A n \in Names :
        um'.sent[n] # um.sent[n] =>
            \A t \in Slots :
                um'.chans[t] =
                    IF t \in SeqToSet(um.watchers[n]) /\ Len(um.chans[t]) < WatchBuffer
                    THEN Append(um.chans[t], um'.sent[n][Len(um'.sent[n])])
                    ELSE um.chans[t]

\* C37 (part): a broadcast never blocks: the next status can be broadcast
\* whatever the watchers' channels hold
C37_NeverBlocks ==
    Len(um.sent["A"]) < MaxFrames /\ ~Finished("A") =>
        ENABLED Broadcast("A", "downloading")

\* C37: frames reach a watcher as an ordered subsequence of the broadcasts,
\* a broadcast never blocks, never sends to a disconnected watcher, and drops
\* a frame only for a watcher with 10 frames pending
C37_BroadcastToWatchers == [][C37_Dispatch]_vars /\ [](C37_Delivered /\ C37_NeverBlocks)

\* one watcher received frames and has 10 pending while a further status was
\* broadcast and dropped for it, and another watcher has disconnected
C37_Witness ==
    \E t, d \in WatchSlots :
        /\ th[t].pc = "w_wait" /\ um.got[t] # <<>>
        /\ Len(um.chans[t]) = WatchBuffer
        /\ um.chans[t][WatchBuffer].seq < Len(um.sent[th[t].name])
        /\ th[d].pc = "w_done" /\ um.got[d] # <<>>


\* a supervisor that passed the guard and has not begun its shutdown
PastGuard(p) == um.sup[p].pc \in {"write", "run"}

\* C38 (part): at most one live supervisor has passed the guard
C38_AtMostOne == Cardinality({p \in Pids : PastGuard(p)}) <= 1

\* C38 (part): once a supervisor finished the guard the lock file exists
\* and holds its pid
C38_LockNamesSurvivor ==
    \A p \in Pids : um.sup[p].pc = "run" => um.lock.exists /\ um.lock.pid = p

\* C38 (part): the removal of a shutdown deletes the lock file only when
\* the file holds the pid of the supervisor shutting down
C38_Shutdown ==
    \A p \in Pids :
        um.sup[p].pc = "unlink" /\ um'.sup[p].pc = "exited"
        /\ um.lock.exists /\ ~um'.lock.exists => um.lock.pid = p

\* C38: a supervisor's shutdown deletes the lock file only while the file
\* is its own (the other parts of the claim, C38_AtMostOne and
\* C38_LockNamesSurvivor, hold)
C38_ShutdownDeletesOwn == [][C38_Shutdown]_vars

\* a supervisor was killed by a later one, which runs and owns the lock,
\* while a third one failed to boot
C38_Takeover ==
    \E a, b, c \in Pids :
        /\ um.sup[a].pc = "killed" /\ um.sup[b].pc = "run" /\ um.lock.pid = b
        /\ um.sup[c].pc = "fatal" /\ um.sup[c].old = a


\* C39: a poll of a name with no update in progress and an update available
\* (no current version recorded, or one that differs from the latest
\* release) invokes update(name, latest, force=false) and returns without
\* aborting the supervisor
C39_PollTriggers ==
    \A t \in ClientSlots :
        th[t].pc = "k_update" /\ th[t].arg = 1 /\ ~InProgress(th[t].name)
        /\ K_Update(t) =>
            th'[t].pc = "u_set" /\ th'[t].tag = th[t].tag /\ ~th'[t].force

\* C39 (the poll of every name): stated over the steps of the poller
C39_PollTriggersUpdate == [][C39_PollTriggers]_vars

\* C39 (part, which holds): a poll of a name whose recorded current version
\* differs from the latest release invokes update(name, latest, false)
C39_RecordedVersionTriggers ==
    [][\A t \in ClientSlots :
        th[t].pc = "k_update" /\ th[t].arg = 1 /\ ~InProgress(th[t].name)
        /\ um.current[th[t].name] # <<>> /\ K_Update(t) =>
            th'[t].pc = "u_set" /\ th'[t].tag = th[t].tag /\ ~th'[t].force]_vars

\* C39 (part, which holds): a poll of a name with an update in progress, or
\* whose current version is the latest release, triggers nothing
C39_NothingTriggered ==
    [][\A t \in ClientSlots :
        /\ \A n \in Names :
              th[t].pc = "idle" /\ th'[t].pc \in {"k_done", "k_update"}
              /\ th'[t].name = n
              /\ (InProgress(n) \/ um.current[n] = <<th'[t].tag>>)
                  => th'[t].pc = "k_done" \/ th'[t].arg = 0
        /\ th[t].pc = "k_update" /\ th[t].arg = 0 /\ th'[t] # th[t]
              => th'[t].pc = "k_done" /\ th'[t].ret = "nil"]_vars


\* the instances of the snapshot that are still listed are as they were:
\* running, on the port they had
Untouched(n, O) ==
    \A k \in 1..Len(O) :
        O[k] \in SeqToSet(instances[n]) =>
            inst[O[k]].status = "running" /\ inst[O[k]].name = n

\* C40 (part): after a successful ScaleProcess(name, t) the instance count
\* of name is t
C40_Count ==
    th[-1].kind = "sc" /\ th[-1].pc = "sc_done" =>
        Len(instances[th[-1].name]) = th[-1].req

\* C40 (part): a successful shrink removed the newest instances: the list
\* is the first t instances of the list the call found, unchanged
C40_Oldest ==
    th[-1].kind = "sc" /\ th[-1].pc = "sc_done" /\ th[-1].req < Len(th[-1].O) =>
        /\ instances[th[-1].name] = SubSeq(th[-1].O, 1, th[-1].req)
        /\ Untouched(th[-1].name, th[-1].O)

\* C40 (part): a start that fails while growing leaves the count between
\* the initial count and t
C40_Between ==
    th[-1].kind = "sc" /\ th[-1].pc = "sc_failed" /\ th[-1].req > Len(th[-1].O) =>
        /\ Len(th[-1].O) <= Len(instances[th[-1].name])
        /\ Len(instances[th[-1].name]) <= th[-1].req

\* C40: a successful ScaleProcess(name, t) leaves t instances, a shrink keeps
\* the t oldest unchanged, and a failed grow leaves the count between the
\* initial count and t
C40_ScaleReachesTarget == C40_Count /\ C40_Oldest /\ C40_Between

\* C40 (part, which holds): for a name without auto_restart the three
\* parts hold
C40_WithoutAutoRestart == ~cfg["A"].auto => C40_Count /\ C40_Oldest /\ C40_Between

====
